---- MODULE Spec2Model ----
(***************************************************************************)
(* A model of serebryakov7/j1708-stats: the DTC deduplication store        *)
(* (pkg/storage), the J1587 bus pipeline (cmd/agent-j1587) and the J1939   *)
(* bus pipeline (cmd/agent-j1939).                                         *)
(*                                                                         *)
(* One process runs one of the programs; `agent` says which:               *)
(*   "store"  a caller of package storage (OpenDB, IsNew, Remove,          *)
(*            ClearAll) on one database file;                              *)
(*   "j1587"  the J1587 agent: Bus, reader, processor, DTC consumer;       *)
(*   "j1939"  the J1939 agent: Bus, reader, processor, DTC forwarder.      *)
(***************************************************************************)
EXTENDS Integers, Sequences, FiniteSets, TLC

VARIABLES
  agent,      \* which program this process runs
  panicked,   \* the process died of a Go runtime panic
  db,         \* the bbolt file: [bucket: is "active_dtcs" there, keys: its keys]
  recorded,   \* history: the (spn, fmi) pairs the store's contract says are recorded
  pristine,   \* history: no Remove or ClearAll has been called on this store
  prev,       \* history: the storage call before the last one
  last,       \* history: the last storage call and what it returned
  port,       \* J1587 Bus.port: "nil" or "open"
  isRunning,  \* J1587 Bus.isRunning
  stopClosed, \* Bus.stopChan has been closed
  readers,    \* the reader goroutines started so far, in the order of their start
  procs,      \* the processor goroutines started so far
  dtcChan,    \* Bus.dtcChan: the DTC records buffered in it
  data,       \* the metric table: metric name -> value
  consumer,   \* the goroutine receiving from dtcChan: "idle", "run" or "done"
  published,  \* the DTC records handed to the MQTT broker
  written,    \* the frames written to the serial port
  lastRet,    \* history: what the last call of a Bus method returned: "nil",
              \* "error", or "idle" for the nil of a stop that found the bus
              \* not running
  dropped,    \* history: a DTC record was dropped at a full dtcChan (the
              \* "channel is full" line of the log)
  fd,         \* J1939 Bus.fd: the socket, or -1
  framesCh,   \* J1939 Bus.framesCh: the frames buffered in it, each the number
              \* of the frame on the bus
  framesClosed, \* J1939 Bus.framesCh has been closed
  dtcClosed,  \* J1939 Bus.dtcChan has been closed
  seq,        \* how many frames the CAN bus has delivered
  budget,     \* how many Start calls the host makes, how many frames the
              \* CAN bus carries and which (traffic), and whether main's DTC
              \* forwarder is part of the run (sink)
  doneClosed, \* J1939 main: the done channel has been closed
  stopMark,   \* history: the number of the last frame in framesCh when Stop
              \* first closed the stop signal (0: none, or no Stop yet)
  handed,     \* history: the number of the last frame handed to ProcessFrame
  parsed,     \* history: the frame of the last parseFrame call made on its
              \* own (<<>>: none yet)
  asm,        \* a run of readFrames on a byte stream with arrival times: the
              \* stream, the locals of readFrames and the frames it has sent
              \* (<<>>: no such run)
  pd,         \* a ProtectedData with the goroutines calling its methods: the
              \* RWMutex, the maps on the heap, each caller's position
              \* (<<>>: none)
  mq          \* an MQTTClient with its publisher: the ticker, stopChan, the
              \* position of StartPublishing and of the publisher task
              \* (<<>>: none)

storeVars == <<db, recorded, pristine, prev, last>>
histVars == <<recorded, pristine, prev, last>>
busVars == <<port, isRunning, stopClosed, readers, procs, dtcChan, data,
             consumer, published, written, lastRet, dropped>>
canVars == <<fd, framesCh, framesClosed, dtcClosed, seq, budget, doneClosed,
            stopMark, handed>>
vars == <<agent, panicked, storeVars, busVars, canVars, parsed, asm, pd, mq>>

(***************************************************************************)
(* pkg/storage/dtc.go                                                      *)
(***************************************************************************)

\* The codes and failure modes the callers pass. 1:12 and 11:2 differ only
\* by where the separator stands.
Spns == {1, 11}
Fmis == {2, 12}
Pairs == Spns \X Fmis

\* strconv's decimal digits, as fmt's %d prints an unsigned number.
DigitChars == <<"0", "1", "2", "3", "4", "5", "6", "7", "8", "9">>

RECURSIVE Digits(_)
Digits(n) ==
  IF n < 10 THEN <<DigitChars[n + 1]>>
  ELSE Digits(n \div 10) \o <<DigitChars[(n % 10) + 1]>>

KeyNoSeparator(spn, fmi) == Digits(spn) \o Digits(fmi)

\* key := []byte(fmt.Sprintf("%d:%d", spn, fmi))
Key(spn, fmi) == Digits(spn) \o <<":">> \o Digits(fmi)

\* What db.Update can do besides running the closure: Begin fails (fn is not
\* run) or Commit fails (fn ran, the transaction is rolled back).
Failures == {"none", "begin", "commit"}

Outcome(st, ret, err, pan) == [db |-> st, ret |-> ret, err |-> err, panic |-> pan]

\* OpenDB: bolt.Open, then CreateBucketIfNotExists(bucketKey).
OpenDB(st) ==
  IF st.bucket THEN st ELSE [bucket |-> TRUE, keys |-> {}]

IsNewNeverRecords(st, spn, fmi, fail) ==
  IF fail = "begin" THEN Outcome(st, FALSE, TRUE, FALSE)
  ELSE IF ~st.bucket THEN Outcome(st, FALSE, FALSE, TRUE)
  ELSE IF Key(spn, fmi) \notin st.keys
       THEN Outcome(st, TRUE, fail = "commit", FALSE)
       ELSE Outcome(st, FALSE, fail = "commit", FALSE)

\* IsNew: inside db.Update, b := tx.Bucket(bucketKey); b.Get(key) == nil means
\* new: isNew = true and b.Put(key, {1}). tx.Bucket returns nil for a bucket
\* that is not there, and (*Bucket)(nil).Get dereferences it: a panic, which
\* db.Update rolls back and lets through.
IsNew(st, spn, fmi, fail) ==
  IF fail = "begin" THEN Outcome(st, FALSE, TRUE, FALSE)
  ELSE IF ~st.bucket THEN Outcome(st, FALSE, FALSE, TRUE)
  ELSE IF Key(spn, fmi) \notin st.keys
       THEN IF fail = "commit"
            THEN Outcome(st, TRUE, TRUE, FALSE)
            ELSE Outcome([st EXCEPT !.keys = @ \cup {Key(spn, fmi)}], TRUE, FALSE, FALSE)
       ELSE Outcome(st, FALSE, fail = "commit", FALSE)

RemoveDeletesAll(st, spn, fmi, fail) ==
  IF fail = "begin" THEN Outcome(st, FALSE, TRUE, FALSE)
  ELSE IF ~st.bucket THEN Outcome(st, FALSE, FALSE, TRUE)
  ELSE IF fail = "commit" THEN Outcome(st, FALSE, TRUE, FALSE)
  ELSE Outcome([st EXCEPT !.keys = {}], FALSE, FALSE, FALSE)

\* Remove: inside db.Update, tx.Bucket(bucketKey).Delete(key); Delete of a key
\* that is not there is no error. A nil bucket panics as in IsNew.
Remove(st, spn, fmi, fail) ==
  IF fail = "begin" THEN Outcome(st, FALSE, TRUE, FALSE)
  ELSE IF ~st.bucket THEN Outcome(st, FALSE, FALSE, TRUE)
  ELSE IF fail = "commit" THEN Outcome(st, FALSE, TRUE, FALSE)
  ELSE Outcome([st EXCEPT !.keys = @ \ {Key(spn, fmi)}], FALSE, FALSE, FALSE)

\* ClearAll: inside db.Update, tx.DeleteBucket(bucketKey): the bucket itself
\* goes, with its keys; ErrBucketNotFound when it is already gone.
ClearAll(st, fail) ==
  IF fail = "begin" THEN Outcome(st, FALSE, TRUE, FALSE)
  ELSE IF ~st.bucket THEN Outcome(st, FALSE, TRUE, FALSE)
  ELSE IF fail = "commit" THEN Outcome(st, FALSE, TRUE, FALSE)
  ELSE Outcome([bucket |-> FALSE, keys |-> {}], FALSE, FALSE, FALSE)

\* A storage call as the history variables keep it.
Call(op, spn, fmi, o, before) ==
  [op |-> op, spn |-> spn, fmi |-> fmi, ret |-> o.ret, err |-> o.err,
   panic |-> o.panic, nkeys |-> Cardinality(before.keys)]

\* The J1939 Bus fields of a process that has no J1939 Bus.
NoCan ==
  /\ fd = -1
  /\ framesCh = <<>>
  /\ framesClosed = FALSE
  /\ dtcClosed = FALSE
  /\ seq = 0
  /\ budget = [starts |-> 0, frames |-> 0, traffic |-> "eec1", sink |-> FALSE]
  /\ doneClosed = FALSE
  /\ stopMark = 0
  /\ handed = 0

\* The Bus fields of a process that has no Bus.
NoBus ==
  /\ port = "nil"
  /\ isRunning = FALSE
  /\ stopClosed = FALSE
  /\ readers = <<>>
  /\ procs = <<>>
  /\ dtcChan = <<>>
  /\ data = <<>>
  /\ consumer = "idle"
  /\ published = {}
  /\ written = {}
  /\ lastRet = "nil"
  /\ dropped = FALSE

NoCall == [op |-> "none", spn |-> 0, fmi |-> 0, ret |-> FALSE, err |-> FALSE,
           panic |-> FALSE, nkeys |-> 0]

FreshDB == [bucket |-> TRUE, keys |-> {}]

\* The database file as OpenDB leaves a new one, and no call made yet.
InitStore ==
  /\ asm = <<>>
  /\ pd = <<>>
  /\ mq = <<>>
  /\ parsed = <<>>
  /\ agent = "store"
  /\ panicked = FALSE
  /\ db = FreshDB
  /\ recorded = {}
  /\ pristine = TRUE
  /\ prev = NoCall
  /\ last = NoCall
  /\ NoBus
  /\ NoCan

\* The process starts again (after a panic or a normal exit) and opens the
\* same file.
StoreOpenDB ==
  /\ agent = "store"
  /\ db' = OpenDB(db)
  /\ panicked' = FALSE
  /\ prev' = last
  /\ last' = [NoCall EXCEPT !.op = "OpenDB", !.nkeys = Cardinality(db.keys)]
  /\ UNCHANGED <<agent, mq, parsed, asm, pd, recorded, pristine, busVars, canVars>>

StoreIsNew(spn, fmi, fail) ==
  /\ agent = "store"
  /\ ~panicked
  /\ LET o == IsNew(db, spn, fmi, fail) IN
       /\ db' = o.db
       /\ panicked' = o.panic
       /\ prev' = last
       /\ last' = Call("IsNew", spn, fmi, o, db)
       /\ recorded' = IF o.err \/ o.panic THEN recorded ELSE recorded \cup {<<spn, fmi>>}
  /\ UNCHANGED <<agent, mq, parsed, asm, pd, pristine, busVars, canVars>>

StoreRemove(spn, fmi, fail) ==
  /\ agent = "store"
  /\ ~panicked
  /\ LET o == Remove(db, spn, fmi, fail) IN
       /\ db' = o.db
       /\ panicked' = o.panic
       /\ prev' = last
       /\ last' = Call("Remove", spn, fmi, o, db)
       /\ recorded' = IF o.err \/ o.panic THEN recorded ELSE recorded \ {<<spn, fmi>>}
  /\ pristine' = FALSE
  /\ UNCHANGED <<agent, mq, parsed, asm, pd, busVars, canVars>>

StoreClearAll(fail) ==
  /\ agent = "store"
  /\ ~panicked
  /\ LET o == ClearAll(db, fail) IN
       /\ db' = o.db
       /\ panicked' = o.panic
       /\ prev' = last
       /\ last' = Call("ClearAll", 0, 0, o, db)
       /\ recorded' = IF o.err \/ o.panic THEN recorded ELSE {}
  /\ pristine' = FALSE
  /\ UNCHANGED <<agent, mq, parsed, asm, pd, busVars, canVars>>

NextStore ==
  \/ StoreOpenDB
  \/ \E p \in Pairs, fail \in Failures : StoreIsNew(p[1], p[2], fail)
  \/ \E p \in Pairs, fail \in Failures : StoreRemove(p[1], p[2], fail)
  \/ \E fail \in Failures : StoreClearAll(fail)

SpecStore == InitStore /\ [][NextStore]_vars

(***************************************************************************)
(* Claims about pkg/storage, checked under SpecStore.                      *)
(***************************************************************************)

\* C1: while no Remove or ClearAll has been called on the store, a successful
\* IsNew(code, fmi) returns true exactly when no earlier successful IsNew was
\* made for that (code, fmi), and a call that returns false leaves the keys
\* of the store as they were.
C1_IsNewOncePerKey ==
  [][\A p \in Pairs :
       (pristine /\ StoreIsNew(p[1], p[2], "none"))
         => /\ last'.ret = (p \notin recorded)
            /\ (~last'.ret => db' = db)]_vars

\* A second sighting of a key, answered false, right after its first.
C1_Witness ==
  /\ pristine
  /\ prev.op = "IsNew" /\ prev.ret /\ ~prev.err
  /\ last.op = "IsNew" /\ ~last.ret /\ ~last.err
  /\ last.spn = prev.spn /\ last.fmi = prev.fmi
  /\ Cardinality(db.keys) = 2

\* C2: the IsNew call that follows a successful ClearAll of a store that held
\* keys completes normally and returns true.
C2_IsNewAfterClearAll ==
  [][\A p \in Pairs :
       (/\ last.op = "ClearAll" /\ ~last.err /\ last.nkeys > 0
        /\ StoreIsNew(p[1], p[2], "none"))
         => (~panicked' /\ ~last'.err /\ last'.ret)]_vars

\* C3: the IsNew call that follows a completed Remove(code, fmi) returns true
\* for (code, fmi) and false for every other pair that was recorded before
\* the Remove.
C3_RemoveDeletesOneKey ==
  [][\A p \in Pairs :
       (/\ last.op = "Remove" /\ ~last.err /\ ~last.panic
        /\ StoreIsNew(p[1], p[2], "none"))
         => IF p = <<last.spn, last.fmi>>
            THEN last'.ret
            ELSE (p \in recorded => ~last'.ret)]_vars

\* Two keys recorded, one removed, the other one sighted again: not new.
C3_Witness ==
  /\ prev.op = "Remove" /\ ~prev.err /\ ~prev.panic /\ prev.nkeys >= 2
  /\ last.op = "IsNew" /\ ~last.err /\ ~last.ret
  /\ <<last.spn, last.fmi>> # <<prev.spn, prev.fmi>>

(***************************************************************************)
(* cmd/agent-j1587: the frame decoder (parseFrame, processPIDData)         *)
(***************************************************************************)

PID_VEHICLE_SPEED == 84
PID_ENGINE_RPM == 190
PID_COOLANT_TEMP == 110
PID_OIL_PRESSURE == 100
PID_ENGINE_LOAD == 91
PID_FUEL_LEVEL == 96
PID_BATTERY_VOLTAGE == 168
PID_AMBIENT_TEMP == 171
PID_TOTAL_DISTANCE == 245
PID_ACTIVE_DTC == 194
PID_PREVIOUSLY_ACTIVE_DTC == 195
PID_COMMAND_CLEAR_DTCS == 250

\* make(chan common.DTCCode, 10)
DtcChanCap == 10

RECURSIVE ByteSum(_)
ByteSum(bytes) ==
  IF bytes = <<>> THEN 0 ELSE Head(bytes) + ByteSum(Tail(bytes))

\* byte(256 - (sum % 256)) without the conversion to byte.
calculateChecksumNoWrap(frame) == 256 - (ByteSum(frame) % 256)

\* byte(256 - (sum % 256))
calculateJ1587Checksum(frame) == (256 - (ByteSum(frame) % 256)) % 256

\* validateJ1587Checksum with the length test only.
validateLengthOnly(frame) == Len(frame) >= 3

validateJ1587Checksum(frame) ==
  /\ Len(frame) >= 3
  /\ ByteSum(frame) % 256 = 0

\* getPIDDataLength with one data byte for every PID below 192.
getPIDDataLengthOneByte(pid, bytes, offset) ==
  IF pid >= 0 /\ pid <= 191 THEN [len |-> 1, err |-> FALSE]
  ELSE IF pid >= 192 /\ pid <= 253
       THEN IF offset >= Len(bytes)
            THEN [len |-> 0, err |-> TRUE]
            ELSE [len |-> bytes[offset + 1], err |-> FALSE]
  ELSE [len |-> 0, err |-> TRUE]

\* getPIDDataLength(pid, data, offset): offset counts from 0, as in the code.
getPIDDataLength(pid, bytes, offset) ==
  IF pid >= 0 /\ pid <= 127 THEN [len |-> 1, err |-> FALSE]
  ELSE IF pid >= 128 /\ pid <= 191 THEN [len |-> 2, err |-> FALSE]
  ELSE IF pid >= 192 /\ pid <= 253
       THEN IF offset >= Len(bytes)
            THEN [len |-> 0, err |-> TRUE]
            ELSE [len |-> bytes[offset + 1], err |-> FALSE]
  ELSE [len |-> 0, err |-> TRUE]

\* The PID walk of parseFrame from `offset`: the (pid, paramData) blocks it
\* hands to processPIDData, in order, until the data ends or a break; `at` is
\* the offset of the block's PID byte in data.
RECURSIVE Walk(_, _)
Walk(bytes, offset) ==
  IF offset >= Len(bytes) THEN <<>>
  ELSE
    LET pid == bytes[offset + 1]
        off1 == offset + 1
        r == getPIDDataLength(pid, bytes, off1)
        variable == pid >= 192 /\ pid <= 253
    IN IF r.err THEN <<>>
       ELSE IF variable /\ off1 >= Len(bytes) THEN <<>>
       ELSE
         LET dataLength == IF variable THEN bytes[off1 + 1] ELSE r.len
             off2 == IF variable THEN off1 + 1 ELSE off1
         IN IF off2 + dataLength > Len(bytes) THEN <<>>
            ELSE <<[pid |-> pid, at |-> offset,
                    param |-> SubSeq(bytes, off2 + 1, off2 + dataLength)]>>
                   \o Walk(bytes, off2 + dataLength)

\* parseFrame up to its walk: nothing for a frame shorter than 3 bytes or
\* with a bad checksum; else the blocks of frame[1 : len(frame)-1].
Blocks(frame) ==
  IF Len(frame) < 3 \/ ~validateJ1587Checksum(frame) THEN <<>>
  ELSE Walk(SubSeq(frame, 2, Len(frame) - 1), 0)

\* Set adding the value to the one stored (pd.Data[key] += value).
SetAdds(table, key, value) ==
  [k \in DOMAIN table \cup {key} |->
     IF k # key THEN table[k]
     ELSE IF key \in DOMAIN table /\ table[key] # <<>> /\ value # <<>>
          THEN <<table[key][1] + value[1], value[2]>>
          ELSE value]

\* ProtectedData.Set: pd.Data[key] = value. A value is <<numerator,
\* denominator>> (the float64 the code computes), or <<>> for nil.
Set(table, key, value) ==
  [k \in DOMAIN table \cup {key} |-> IF k = key THEN value ELSE table[k]]

\* select { case p.dtcChan <- dtc: default: }
TrySendOverflow(ch, dtc) == Append(ch, dtc)

TrySend(ch, dtc) ==
  IF Len(ch) < DtcChanCap THEN Append(ch, dtc) ELSE ch

\* processPIDData(mid, pid, paramData) on st = the metric table, dtcChan and
\* whether the record was dropped (the default branch of the select).
processPIDData(st, mid, pid, param) ==
  LET n == Len(param) IN
  IF pid = PID_VEHICLE_SPEED /\ n >= 1
    THEN [st EXCEPT !.data = Set(@, "Speed", <<param[1], 1>>)]
  ELSE IF pid = PID_ENGINE_RPM /\ n >= 2
    THEN [st EXCEPT !.data = Set(@, "EngineRPM", <<(param[1] * 256 + param[2]) \div 8, 1>>)]
  ELSE IF pid = PID_COOLANT_TEMP /\ n >= 1
    THEN [st EXCEPT !.data = Set(@, "EngineCoolantTemp", <<param[1] - 40, 1>>)]
  ELSE IF pid = PID_OIL_PRESSURE /\ n >= 1
    THEN [st EXCEPT !.data = Set(@, "EngineOilPressure", <<param[1] * 4, 1>>)]
  ELSE IF pid = PID_ENGINE_LOAD /\ n >= 1
    THEN [st EXCEPT !.data = Set(@, "EngineLoad", <<param[1], 1>>)]
  ELSE IF pid = PID_FUEL_LEVEL /\ n >= 1
    THEN [st EXCEPT !.data = Set(@, "FuelLevel", <<param[1] * 100, 255>>)]
  ELSE IF pid = PID_BATTERY_VOLTAGE /\ n >= 1
    THEN [st EXCEPT !.data = Set(@, "BatteryVoltage", <<param[1], 10>>)]
  ELSE IF pid = PID_AMBIENT_TEMP /\ n >= 1
    THEN [st EXCEPT !.data = Set(@, "AmbientAirTemp", <<param[1] - 40, 1>>)]
  ELSE IF pid = PID_TOTAL_DISTANCE /\ n >= 4
    THEN [st EXCEPT !.data = Set(@, "TotalDistance",
            <<param[1] * 16777216 + param[2] * 65536 + param[3] * 256 + param[4], 10>>)]
  ELSE IF pid \in {PID_ACTIVE_DTC, PID_PREVIOUSLY_ACTIVE_DTC} /\ n >= 3
    THEN LET dtc == [mid |-> mid, pid |-> pid, spn |-> param[1], fmi |-> param[2] % 16]
         IN [st EXCEPT !.dtc = TrySend(@, dtc),
                       !.dropped = (TrySend(st.dtc, dtc) = st.dtc)]
  ELSE st

(***************************************************************************)
(* cmd/agent-j1587: Bus, its reader, its processor and the DTC consumer    *)
(***************************************************************************)

\* How many times StartReading may succeed.
MaxStarts == 2
\* The longest run of bytes the port delivers without an inter-frame gap.
MaxBuf == 9

\* A frame as a module sends it: the bytes, then their checksum (the layout
\* SendFrame builds).
Framed(bytes) == bytes \o <<calculateJ1587Checksum(bytes)>>

\* MID 128: an active DTC (code 7, FMI 3), then vehicle speed 60.
DtcFrame == Framed(<<128, 194, 3, 7, 35, 0, 84, 60>>)

\* What one port.Read may return: nothing (a timeout or an error) or the
\* bytes of a frame.
Chunks == {<<>>, DtcFrame}

NewReader == [pc |-> "select", buf |-> <<>>, pend |-> <<>>]
\* A processor: where it is, and inside a frame the MID of the frame and the
\* PID blocks of its walk that are still to be handed to processPIDData.
NewProc == [pc |-> "recv", mid |-> 0, todo |-> <<>>]

\* NewBus(port) in main, port being nil or open; the database is new.
InitJ1587 ==
  /\ asm = <<>>
  /\ pd = <<>>
  /\ mq = <<>>
  /\ parsed = <<>>
  /\ agent = "j1587"
  /\ panicked = FALSE
  /\ db = FreshDB
  /\ recorded = {}
  /\ pristine = TRUE
  /\ prev = NoCall
  /\ last = NoCall
  /\ port \in {"nil", "open"}
  /\ isRunning = FALSE
  /\ stopClosed = FALSE
  /\ readers = <<>>
  /\ procs = <<>>
  /\ dtcChan = <<>>
  /\ data = <<>>
  /\ consumer = "idle"
  /\ published = {}
  /\ written = {}
  /\ lastRet = "nil"
  /\ dropped = FALSE
  /\ NoCan

StartReadingUnguarded ==
  /\ agent = "j1587"
  /\ ~panicked
  /\ Len(readers) < MaxStarts
  /\ isRunning' = TRUE
  /\ readers' = Append(readers, NewReader)
  /\ procs' = Append(procs, NewProc)
  /\ lastRet' = "nil"
  /\ UNCHANGED <<agent, mq, parsed, asm, pd, canVars, panicked, storeVars, port, stopClosed, dtcChan, data,
                 consumer, published, written, dropped>>

\* Bus.StartReading
StartReading ==
  /\ agent = "j1587"
  /\ ~panicked
  /\ IF isRunning
     THEN lastRet' = "error" /\ UNCHANGED <<isRunning, readers, procs>>
     ELSE IF port = "nil"
     THEN lastRet' = "error" /\ UNCHANGED <<isRunning, readers, procs>>
     ELSE /\ Len(readers) < MaxStarts
          /\ isRunning' = TRUE
          /\ readers' = Append(readers, NewReader)
          /\ procs' = Append(procs, NewProc)
          /\ lastRet' = "nil"
  /\ UNCHANGED <<agent, mq, parsed, asm, pd, canVars, panicked, storeVars, port, stopClosed, dtcChan, data,
                 consumer, published, written, dropped>>

StopReadingUnguarded ==
  /\ agent = "j1587"
  /\ ~panicked
  /\ lastRet' = "nil"
  /\ IF stopClosed
     THEN panicked' = TRUE /\ UNCHANGED <<stopClosed, isRunning>>
     ELSE stopClosed' = TRUE /\ isRunning' = FALSE /\ UNCHANGED panicked
  /\ UNCHANGED <<agent, mq, parsed, asm, pd, canVars, storeVars, port, readers, procs, dtcChan, data,
                 consumer, published, written, dropped>>

\* Bus.StopReading. close(p.stopChan) of a closed channel panics.
StopReading ==
  /\ agent = "j1587"
  /\ ~panicked
  /\ IF ~isRunning
     THEN lastRet' = "idle" /\ UNCHANGED <<panicked, stopClosed, isRunning>>
     ELSE /\ lastRet' = "nil"
          /\ IF stopClosed
             THEN panicked' = TRUE /\ UNCHANGED <<stopClosed, isRunning>>
             ELSE stopClosed' = TRUE /\ isRunning' = FALSE /\ UNCHANGED panicked
  /\ UNCHANGED <<agent, mq, parsed, asm, pd, canVars, storeVars, port, readers, procs, dtcChan, data,
                 consumer, published, written, dropped>>

\* ClearActiveDTCs with storage.ClearAll called before SendFrame.
ClearActiveDTCsClearsFirst(mid, writeFails, fail) ==
  /\ agent = "j1587"
  /\ ~panicked
  /\ db' = ClearAll(db, fail).db
  /\ IF port = "nil" \/ ~isRunning \/ writeFails
     THEN /\ lastRet' = "error"
          /\ UNCHANGED written
     ELSE /\ written' = written \cup {Framed(<<mid, PID_COMMAND_CLEAR_DTCS>>)}
          /\ lastRet' = "nil"
  /\ UNCHANGED <<agent, mq, parsed, asm, pd, canVars, panicked, histVars, port, isRunning, stopClosed, readers,
                 procs, dtcChan, data, consumer, published, dropped>>

\* Bus.ClearActiveDTCs(targetMID): SendFrame(targetMID, 250, nil), then
\* storage.ClearAll, whose error is only logged.
ClearActiveDTCs(mid, writeFails, fail) ==
  /\ agent = "j1587"
  /\ ~panicked
  /\ IF port = "nil" \/ ~isRunning \/ writeFails
     THEN /\ lastRet' = "error"
          /\ UNCHANGED <<written, db>>
     ELSE /\ written' = written \cup {Framed(<<mid, PID_COMMAND_CLEAR_DTCS>>)}
          /\ db' = ClearAll(db, fail).db
          /\ lastRet' = "nil"
  /\ UNCHANGED <<agent, mq, parsed, asm, pd, canVars, panicked, histVars, port, isRunning, stopClosed, readers,
                 procs, dtcChan, data, consumer, published, dropped>>

\* common.CommandTypeClearDTCs
CommandTypeClearDTCs == "clear_dtcs"

\* The Type of the commands the server sends: the one handleMQTTCommand has
\* a case for, and the one common declares.
CommandTypes == {"clear_dtc", CommandTypeClearDTCs}

\* cmd.Params.TargetMID, a *byte: <<>> for nil, or <<mid>>.
TargetMIDs == {<<>>, <<0>>, <<130>>}

\* handleMQTTCommand(bus, cmd): ClearActiveDTCs on the target MID (128 when
\* the command has none) for the Type "clear_dtc"; any other Type is logged
\* and nil is returned.
handleMQTTCommand(type, target, writeFails, fail) ==
  IF type = "clear_dtc"
  THEN ClearActiveDTCs(IF target = <<>> THEN 128 ELSE target[1], writeFails, fail)
  ELSE /\ agent = "j1587"
       /\ ~panicked
       /\ lastRet' = "nil"
       /\ UNCHANGED <<agent, mq, parsed, asm, pd, canVars, panicked, storeVars, port, isRunning,
                      stopClosed, readers, procs, dtcChan, data, consumer, published,
                      written, dropped>>

\* readFrames: case <-p.stopChan: return
ReaderExit(g) ==
  /\ agent = "j1587"
  /\ ~panicked
  /\ readers[g].pc = "select"
  /\ stopClosed
  /\ readers' = [readers EXCEPT ![g].pc = "done"]
  /\ UNCHANGED <<agent, mq, parsed, asm, pd, canVars, panicked, storeVars, port, isRunning, stopClosed, procs,
                 dtcChan, data, consumer, published, written, lastRet, dropped>>

\* readFrames flushing on the gap alone, without len(frame) > 0.
ReaderReadFlushEmpty(g, chunk, gap) ==
  /\ agent = "j1587"
  /\ ~panicked
  /\ readers[g].pc = "select"
  /\ ~stopClosed
  /\ Len(readers[g].buf) + Len(chunk) <= MaxBuf
  /\ IF gap
     THEN readers' = [readers EXCEPT ![g].pc = "send", ![g].pend = chunk]
     ELSE readers' = [readers EXCEPT ![g].buf = @ \o chunk]
  /\ UNCHANGED <<agent, mq, parsed, asm, pd, canVars, panicked, storeVars, port, isRunning, stopClosed,
                 procs, dtcChan, data, consumer, published, written, lastRet, dropped>>

\* readFrames, the default branch: one port.Read returning `chunk`, `gap`
\* telling whether now.Sub(last) >= interFrameGap. Only the first byte of a
\* read can flush: appending it sets last = now.
ReaderRead(g, chunk, gap) ==
  /\ agent = "j1587"
  /\ ~panicked
  /\ readers[g].pc = "select"
  /\ ~stopClosed
  /\ Len(readers[g].buf) + Len(chunk) <= MaxBuf
  /\ IF gap /\ Len(readers[g].buf) > 0
     THEN readers' = [readers EXCEPT ![g].pc = "send", ![g].pend = chunk]
     ELSE readers' = [readers EXCEPT ![g].buf = @ \o chunk]
  /\ UNCHANGED <<agent, mq, parsed, asm, pd, canVars, panicked, storeVars, port, isRunning, stopClosed, procs,
                 dtcChan, data, consumer, published, written, lastRet, dropped>>

\* p.frames <- frame meets frame := <-p.frames: the channel has no buffer.
\* The reader goes on with frame = nil and appends the bytes it read.
ProcRecv(h, g) ==
  /\ agent = "j1587"
  /\ ~panicked
  /\ procs[h].pc = "recv"
  /\ readers[g].pc = "send"
  /\ procs' = [procs EXCEPT ![h] = [pc |-> "parse", mid |-> readers[g].buf[1],
                                    todo |-> Blocks(readers[g].buf)]]
  /\ readers' = [readers EXCEPT ![g] = [pc |-> "select", buf |-> readers[g].pend,
                                        pend |-> <<>>]]
  /\ UNCHANGED <<agent, mq, parsed, asm, pd, canVars, panicked, storeVars, port, isRunning, stopClosed,
                 dtcChan, data, consumer, published, written, lastRet, dropped>>

\* The reader's side of that hand-over.
ReaderSend(g) == \E h \in DOMAIN procs : ProcRecv(h, g)

\* processFrames: case <-p.stopChan: return
ProcExit(h) ==
  /\ agent = "j1587"
  /\ ~panicked
  /\ procs[h].pc = "recv"
  /\ stopClosed
  /\ procs' = [procs EXCEPT ![h].pc = "done"]
  /\ UNCHANGED <<agent, mq, parsed, asm, pd, canVars, panicked, storeVars, port, isRunning, stopClosed, readers,
                 dtcChan, data, consumer, published, written, lastRet, dropped>>

\* The processor recording in the dedup store the key of a DTC record it
\* drops at the full dtcChan.
ProcParseRecordsDropped(h) ==
  /\ agent = "j1587"
  /\ ~panicked
  /\ procs[h].pc = "parse"
  /\ IF procs[h].todo = <<>>
     THEN /\ procs' = [procs EXCEPT ![h] = NewProc]
          /\ UNCHANGED <<data, dtcChan, dropped, db>>
     ELSE LET block == Head(procs[h].todo)
              st == processPIDData([data |-> data, dtc |-> dtcChan, dropped |-> FALSE],
                                   procs[h].mid, block.pid, block.param)
          IN /\ data' = st.data
             /\ dtcChan' = st.dtc
             /\ dropped' = (dropped \/ st.dropped)
             /\ db' = IF st.dropped /\ db.bucket
                      THEN [db EXCEPT !.keys = @ \cup {Key(block.param[1], block.param[2] % 16)}]
                      ELSE db
             /\ procs' = IF Len(procs[h].todo) = 1
                         THEN [procs EXCEPT ![h] = NewProc]
                         ELSE [procs EXCEPT ![h].todo = Tail(@)]
  /\ UNCHANGED <<agent, mq, parsed, asm, pd, canVars, panicked, histVars, port, isRunning, stopClosed, readers,
                 consumer, published, written, lastRet>>

\* processFrames and parseFrame on the frame received: one PID block of the
\* walk per step, back to the receive after the last one (or at once, for a
\* frame that is short, fails its checksum or has no complete block).
ProcParse(h) ==
  /\ agent = "j1587"
  /\ ~panicked
  /\ procs[h].pc = "parse"
  /\ IF procs[h].todo = <<>>
     THEN /\ procs' = [procs EXCEPT ![h] = NewProc]
          /\ UNCHANGED <<data, dtcChan, dropped>>
     ELSE LET block == Head(procs[h].todo)
              st == processPIDData([data |-> data, dtc |-> dtcChan, dropped |-> FALSE],
                                   procs[h].mid, block.pid, block.param)
          IN /\ data' = st.data
             /\ dtcChan' = st.dtc
             /\ dropped' = (dropped \/ st.dropped)
             /\ procs' = IF Len(procs[h].todo) = 1
                         THEN [procs EXCEPT ![h] = NewProc]
                         ELSE [procs EXCEPT ![h].todo = Tail(@)]
  /\ UNCHANGED <<agent, mq, parsed, asm, pd, canVars, panicked, storeVars, port, isRunning, stopClosed, readers,
                 consumer, published, written, lastRet>>

\* main: go bus.StartProcessingDTCs(mqttClient)
StartProcessingDTCs ==
  /\ agent = "j1587"
  /\ ~panicked
  /\ consumer = "idle"
  /\ consumer' = "run"
  /\ UNCHANGED <<agent, mq, parsed, asm, pd, canVars, panicked, storeVars, port, isRunning, stopClosed, readers,
                 procs, dtcChan, data, published, written, lastRet, dropped>>

\* StartProcessingDTCs: case <-p.stopChan: return
ConsumerExit ==
  /\ agent = "j1587"
  /\ ~panicked
  /\ consumer = "run"
  /\ stopClosed
  /\ consumer' = "done"
  /\ UNCHANGED <<agent, mq, parsed, asm, pd, canVars, panicked, storeVars, port, isRunning, stopClosed, readers,
                 procs, dtcChan, data, published, written, lastRet, dropped>>

\* StartProcessingDTCs: case dtc := <-p.dtcChan, storage.IsNew, and
\* PublishDTC when it is new; an IsNew error skips the record. PublishDTC
\* sends nothing when the client is not connected.
ConsumerRecv(fail, connected) ==
  /\ agent = "j1587"
  /\ ~panicked
  /\ consumer = "run"
  /\ dtcChan # <<>>
  /\ LET dtc == Head(dtcChan)
         o == IsNew(db, dtc.spn, dtc.fmi, fail)
     IN /\ dtcChan' = Tail(dtcChan)
        /\ db' = o.db
        /\ panicked' = o.panic
        /\ published' = IF ~o.panic /\ ~o.err /\ o.ret /\ connected
                        THEN published \cup {dtc}
                        ELSE published
  /\ UNCHANGED <<agent, mq, parsed, asm, pd, canVars, histVars, port, isRunning, stopClosed, readers, procs,
                 data, consumer, written, lastRet, dropped>>

NextJ1587 ==
  \/ StartReading
  \/ StopReading
  \/ \E writeFails \in BOOLEAN, fail \in Failures : ClearActiveDTCs(128, writeFails, fail)
  \/ \E g \in DOMAIN readers : ReaderExit(g)
  \/ \E g \in DOMAIN readers, chunk \in Chunks, gap \in BOOLEAN : ReaderRead(g, chunk, gap)
  \/ \E h \in DOMAIN procs, g \in DOMAIN readers : ProcRecv(h, g)
  \/ \E h \in DOMAIN procs : ProcExit(h)
  \/ \E h \in DOMAIN procs : ProcParse(h)
  \/ StartProcessingDTCs
  \/ ConsumerExit
  \/ \E fail \in Failures, connected \in BOOLEAN : ConsumerRecv(fail, connected)

SpecJ1587 == InitJ1587 /\ [][NextJ1587]_vars

\* The host and the MQTT command handler alone: the bus is started and
\* stopped and commands arrive, with the goroutines of the bus at rest.
NextCommand ==
  \/ StartReading
  \/ StopReading
  \/ \E type \in CommandTypes, target \in TargetMIDs, writeFails \in BOOLEAN,
        fail \in Failures : handleMQTTCommand(type, target, writeFails, fail)

SpecCommand == InitJ1587 /\ [][NextCommand]_vars

(***************************************************************************)
(* cmd/agent-j1939: Bus, its reader and its processor                      *)
(***************************************************************************)

pgnEEC1 == 61444
pgnDM1 == 65226
pgnDM2 == 65227
\* make(chan J1939FrameInfo, 100)
FramesChCap == 100

\* How many frames the bus carries while the host calls Start and Stop in
\* any order.
MaxFrames == 2
\* How many frames more than framesCh can hold the bus carries for a host
\* that starts the bus once.
MaxOverflow == 2

\* k copies of the bytes s, one after the other.
RECURSIVE Repeat(_, _)
Repeat(s, k) == IF k = 0 THEN <<>> ELSE s \o Repeat(s, k - 1)

\* Diagnostic traffic: a DM1 from source address 0 with one DTC (lamp status
\* 00 00, then 01 02 43 05), a DM1 with that DTC again and a second one
\* (09 00 04 01), a DM2 from source address 0 with one DTC more than dtcChan
\* holds (each 09 00 04 01), then an EEC1 frame.
DmTraffic ==
  << [pgn |-> pgnDM1, sa |-> 0, data |-> <<0, 0, 1, 2, 67, 5>>],
     [pgn |-> pgnDM1, sa |-> 0, data |-> <<0, 0, 1, 2, 67, 5, 9, 0, 4, 1>>],
     [pgn |-> pgnDM2, sa |-> 0, data |-> <<0, 0>> \o Repeat(<<9, 0, 4, 1>>, DtcChanCap + 1)],
     [pgn |-> pgnEEC1, sa |-> 0, data |-> <<255, 255, 130, 64, 31, 255, 255, 255>>] >>

\* The runs explored: a host that calls Start up to MaxStarts times on a bus
\* with little traffic; the host of main, with its one Start, on a bus with
\* more frames than framesCh holds; and main with its DTC forwarder on a bus
\* carrying DmTraffic.
Budgets ==
  { [starts |-> MaxStarts, frames |-> MaxFrames, traffic |-> "eec1", sink |-> FALSE],
    [starts |-> 1, frames |-> FramesChCap + MaxOverflow, traffic |-> "eec1",
     sink |-> FALSE],
    [starts |-> 1, frames |-> Len(DmTraffic), traffic |-> "dm", sink |-> TRUE] }

\* The n-th frame on the bus: EEC1 from source address 0, engine speed n rpm
\* (n / 0.125 in bytes 4 and 5), torque byte 125 + n % 2.
BusFrame(n) ==
  [pgn |-> pgnEEC1, sa |-> 0,
   data |-> <<255, 255, 125 + (n % 2), (8 * n) % 256, (8 * n) \div 256, 255, 255, 255>>]

\* The n-th frame the socket delivers in this run.
Traffic(n) == IF budget.traffic = "dm" THEN DmTraffic[n] ELSE BusFrame(n)

\* parseEEC1 leaving the stored value alone on a 0xFF sentinel.
parseEEC1KeepsOnSentinel(table, bytes) ==
  IF Len(bytes) < 5 THEN table
  ELSE LET rpm == IF bytes[4] # 255 \/ bytes[5] # 255
                  THEN Set(table, "EngineRPM", <<bytes[4] + 256 * bytes[5], 8>>)
                  ELSE table
       IN IF bytes[3] # 255
          THEN Set(rpm, "EngineLoad", <<bytes[3] - 125, 1>>)
          ELSE rpm

\* FrameProcessor.parseEEC1(data); bytes[i + 1] is data[i].
parseEEC1(table, bytes) ==
  IF Len(bytes) < 5 THEN table
  ELSE LET rpm == IF bytes[4] # 255 \/ bytes[5] # 255
                  THEN Set(table, "EngineRPM", <<bytes[4] + 256 * bytes[5], 8>>)
                  ELSE Set(table, "EngineRPM", <<>>)
       IN IF bytes[3] # 255
          THEN Set(rpm, "EngineLoad", <<bytes[3] - 125, 1>>)
          ELSE Set(rpm, "EngineLoad", <<>>)

\* FrameProcessor.ProcessFrame(pgn, sa, data) on the metric table, for the
\* PGNs of the traffic; DM1 and DM2 write no metric, and a PGN outside the
\* switch changes nothing.
ProcessFrame(table, pgn, sa, bytes) ==
  IF pgn = pgnEEC1 THEN parseEEC1(table, bytes) ELSE table

\* The entries with the SPN taking its high bits from the FMI bits of byte 3
\* ((data[offset+2] & 0x1F) << 16).
DmEntriesLowBits(bytes) ==
  IF Len(bytes) < 6 THEN <<>>
  ELSE LET numDTCs == (Len(bytes) - 2) \div 4
           kept == {i \in 0 .. numDTCs - 1 :
                      \A j \in 0 .. i : 2 + j * 4 + 3 < Len(bytes)}
       IN [k \in 1 .. Cardinality(kept) |->
             LET offset == 2 + (k - 1) * 4
             IN [spn |-> bytes[offset + 1] + 256 * bytes[offset + 2]
                           + 65536 * (bytes[offset + 3] % 32),
                 fmi |-> bytes[offset + 3] % 32,
                 oc |-> bytes[offset + 4] % 128]]

\* The entries of a payload taken only when its length is 2 + N*4 (the
\* packet with a remainder is not processed).
DmEntriesWholeOnly(bytes) ==
  IF Len(bytes) < 6 \/ (Len(bytes) - 2) % 4 # 0 THEN <<>>
  ELSE [k \in 1 .. (Len(bytes) - 2) \div 4 |->
          LET offset == 2 + (k - 1) * 4
          IN [spn |-> bytes[offset + 1] + 256 * bytes[offset + 2]
                        + 65536 * (bytes[offset + 3] \div 32),
              fmi |-> bytes[offset + 3] % 32,
              oc |-> bytes[offset + 4] % 128]]

\* The DTC entries the loop of parseDM1 and of parseDM2 decodes from a
\* payload, in order; bytes[i + 1] is data[i].
DmEntries(bytes) ==
  IF Len(bytes) < 6 THEN <<>>
  ELSE LET numDTCs == (Len(bytes) - 2) \div 4
           kept == {i \in 0 .. numDTCs - 1 :
                      \A j \in 0 .. i : 2 + j * 4 + 3 < Len(bytes)}
       IN [k \in 1 .. Cardinality(kept) |->
             LET offset == 2 + (k - 1) * 4
             IN [spn |-> bytes[offset + 1] + 256 * bytes[offset + 2]
                           + 65536 * (bytes[offset + 3] \div 32),
                 fmi |-> bytes[offset + 3] % 32,
                 oc |-> bytes[offset + 4] % 128]]

\* A reader: pc is "loop" (the select at the top of the loop), "recv" (inside
\* unix.Recvfrom), "send" (the select that sends frameInfo) or "done";
\* frame is the number of the frame it holds, 0 for none.
NewCanReader == [pc |-> "loop", frame |-> 0]
\* A processor: pc is "recv" (its select), "check" (parseDM1 about to call
\* storage.IsNew on the first entry of todo), "send" (parseDM1 or parseDM2
\* at fp.dtcChan <- dtc for the first entry of todo) or "done"; sa is the
\* source address of the frame and dedup tells parseDM1 from parseDM2.
NewCanProc == [pc |-> "recv", sa |-> 0, dedup |-> FALSE, todo |-> <<>>]

\* NewBus succeeded: the socket is open and bound, nothing is started.
InitJ1939 ==
  /\ asm = <<>>
  /\ pd = <<>>
  /\ mq = <<>>
  /\ parsed = <<>>
  /\ agent = "j1939"
  /\ panicked = FALSE
  /\ db = FreshDB
  /\ recorded = {}
  /\ pristine = TRUE
  /\ prev = NoCall
  /\ last = NoCall
  /\ NoBus
  /\ fd = 3
  /\ framesCh = <<>>
  /\ framesClosed = FALSE
  /\ dtcClosed = FALSE
  /\ seq = 0
  /\ budget \in Budgets
  /\ doneClosed = FALSE
  /\ stopMark = 0
  /\ handed = 0

\* What a J1939 step leaves alone: the fields of the J1587 Bus.
serialVars == <<port, isRunning, written, dropped>>
\* The DTC channel and main's forwarder of it.
sinkVars == <<dtcChan, consumer, published, doneClosed>>

\* Bus.Start
Start ==
  /\ agent = "j1939"
  /\ ~panicked
  /\ Len(readers) < budget.starts
  /\ readers' = Append(readers, NewCanReader)
  /\ procs' = Append(procs, NewCanProc)
  /\ lastRet' = "nil"
  /\ UNCHANGED <<agent, mq, parsed, asm, pd, panicked, storeVars, serialVars, sinkVars, stopClosed, data, fd,
                 framesCh, framesClosed, dtcClosed, seq, budget, stopMark, handed>>

\* Stop closing dtcChan as well, as one of the resources of the bus.
StopClosesDtcChan ==
  /\ agent = "j1939"
  /\ ~panicked
  /\ stopClosed' = TRUE
  /\ fd' = -1
  /\ dtcClosed' = TRUE
  /\ lastRet' = IF stopClosed /\ fd = -1 THEN "idle" ELSE "nil"
  /\ stopMark' = IF ~stopClosed /\ framesCh # <<>>
                 THEN framesCh[Len(framesCh)] ELSE stopMark
  /\ UNCHANGED <<agent, mq, parsed, asm, pd, panicked, storeVars, serialVars, sinkVars, readers, procs, data,
                 framesCh, framesClosed, seq, budget, handed>>

\* Bus.Stop: close(p.stopChan) unless it is closed, unix.Close(p.fd) and
\* p.fd = -1 unless it is -1; it returns nil.
Stop ==
  /\ agent = "j1939"
  /\ ~panicked
  /\ stopClosed' = TRUE
  /\ fd' = -1
  /\ lastRet' = IF stopClosed /\ fd = -1 THEN "idle" ELSE "nil"
  /\ stopMark' = IF ~stopClosed /\ framesCh # <<>>
                 THEN framesCh[Len(framesCh)] ELSE stopMark
  /\ UNCHANGED <<agent, mq, parsed, asm, pd, panicked, storeVars, serialVars, sinkVars, readers, procs, data,
                 framesCh, framesClosed, dtcClosed, seq, budget, handed>>

\* The deferred close(p.framesCh) of readFrames, on its way out.
CanReaderReturns(g) ==
  /\ readers' = [readers EXCEPT ![g] = [pc |-> "done", frame |-> 0]]
  /\ IF framesClosed
     THEN panicked' = TRUE /\ UNCHANGED framesClosed
     ELSE framesClosed' = TRUE /\ UNCHANGED panicked

\* readFrames, the top of the loop: case <-p.stopChan: return; default: the
\* p.fd == -1 check, then into unix.Recvfrom. The read of p.fd is not
\* synchronised with Stop's write; a reader that misses the write calls
\* Recvfrom on the closed socket, which is the "error" of CanReaderRecv.
CanReaderLoop(g) ==
  /\ agent = "j1939"
  /\ ~panicked
  /\ readers[g].pc = "loop"
  /\ IF stopClosed \/ fd = -1
     THEN CanReaderReturns(g)
     ELSE /\ readers' = [readers EXCEPT ![g].pc = "recv"]
          /\ UNCHANGED <<panicked, framesClosed>>
  /\ UNCHANGED <<agent, mq, parsed, asm, pd, storeVars, serialVars, sinkVars, stopClosed, procs, data, fd,
                 framesCh, dtcClosed, seq, budget, stopMark, handed, lastRet>>

\* unix.Recvfrom returns. "frame": the next frame of the bus, also to a
\* reader that was inside the call when Stop closed the socket. "error": an
\* error return, after which the reader returns if stopChan is closed and
\* tries again if not. "empty": n == 0 or an address of another type.
CanReaderRecv(g, outcome) ==
  /\ agent = "j1939"
  /\ ~panicked
  /\ readers[g].pc = "recv"
  /\ CASE outcome = "frame" ->
            /\ seq < budget.frames
            /\ seq' = seq + 1
            /\ readers' = [readers EXCEPT ![g] = [pc |-> "send", frame |-> seq + 1]]
            /\ UNCHANGED <<panicked, framesClosed>>
       [] outcome = "error" ->
            /\ IF stopClosed
               THEN CanReaderReturns(g)
               ELSE /\ readers' = [readers EXCEPT ![g].pc = "loop"]
                    /\ UNCHANGED <<panicked, framesClosed>>
            /\ UNCHANGED seq
       [] outcome = "empty" ->
            /\ readers' = [readers EXCEPT ![g].pc = "loop"]
            /\ UNCHANGED <<panicked, framesClosed, seq>>
  /\ UNCHANGED <<agent, mq, parsed, asm, pd, storeVars, serialVars, sinkVars, stopClosed, procs, data, fd,
                 framesCh, dtcClosed, budget, stopMark, handed, lastRet>>

CanReaderSendBlocking(g, branch) ==
  /\ agent = "j1939"
  /\ ~panicked
  /\ readers[g].pc = "send"
  /\ CASE branch = "send" ->
            /\ Len(framesCh) < FramesChCap \/ framesClosed
            /\ IF framesClosed
               THEN /\ panicked' = TRUE
                    /\ UNCHANGED <<framesCh, readers, framesClosed>>
               ELSE /\ framesCh' = Append(framesCh, readers[g].frame)
                    /\ readers' = [readers EXCEPT ![g] = NewCanReader]
                    /\ UNCHANGED <<panicked, framesClosed>>
       [] branch = "stop" ->
            /\ stopClosed
            /\ CanReaderReturns(g)
            /\ UNCHANGED framesCh
       [] branch = "default" -> FALSE
  /\ UNCHANGED <<agent, mq, parsed, asm, pd, storeVars, serialVars, sinkVars, stopClosed, procs, data, fd,
                 dtcClosed, seq, budget, stopMark, handed, lastRet>>

\* readFrames, the select on the frame read: case p.framesCh <- frameInfo
\* (a send on a closed channel panics), case <-p.stopChan: return, and the
\* default, taken when neither is ready, which drops the frame.
CanReaderSend(g, branch) ==
  /\ agent = "j1939"
  /\ ~panicked
  /\ readers[g].pc = "send"
  /\ CASE branch = "send" ->
            /\ Len(framesCh) < FramesChCap \/ framesClosed
            /\ IF framesClosed
               THEN /\ panicked' = TRUE
                    /\ UNCHANGED <<framesCh, readers, framesClosed>>
               ELSE /\ framesCh' = Append(framesCh, readers[g].frame)
                    /\ readers' = [readers EXCEPT ![g] = NewCanReader]
                    /\ UNCHANGED <<panicked, framesClosed>>
       [] branch = "stop" ->
            /\ stopClosed
            /\ CanReaderReturns(g)
            /\ UNCHANGED framesCh
       [] branch = "default" ->
            /\ ~(Len(framesCh) < FramesChCap \/ framesClosed)
            /\ ~stopClosed
            /\ readers' = [readers EXCEPT ![g] = NewCanReader]
            /\ UNCHANGED <<panicked, framesCh, framesClosed>>
  /\ UNCHANGED <<agent, mq, parsed, asm, pd, storeVars, serialVars, sinkVars, stopClosed, procs, data, fd,
                 dtcClosed, seq, budget, stopMark, handed, lastRet>>

\* The deferred close(p.dtcChan) of processFrames, on its way out.
CanProcReturns(h) ==
  /\ procs' = [procs EXCEPT ![h] = [NewCanProc EXCEPT !.pc = "done"]]
  /\ IF dtcClosed
     THEN panicked' = TRUE /\ UNCHANGED dtcClosed
     ELSE dtcClosed' = TRUE /\ UNCHANGED panicked

\* processFrames, one pass of its loop: case frame, ok := <-p.framesCh (a
\* frame and ProcessFrame on it, or !ok from the closed and empty channel
\* and return), or case <-p.stopChan: return. ProcessFrame on a DM1 or DM2
\* frame with entries goes on in CanProcCheck and CanProcSend.
CanProcStep(h, branch) ==
  /\ agent = "j1939"
  /\ ~panicked
  /\ procs[h].pc = "recv"
  /\ CASE branch = "frame" ->
            /\ framesCh # <<>>
            /\ LET frame == Traffic(Head(framesCh))
                   entries == IF frame.pgn \in {pgnDM1, pgnDM2}
                              THEN DmEntries(frame.data) ELSE <<>>
               IN /\ data' = ProcessFrame(data, frame.pgn, frame.sa, frame.data)
                  /\ procs' = IF entries = <<>> THEN procs
                              ELSE [procs EXCEPT ![h] =
                                      [pc |-> IF frame.pgn = pgnDM1 THEN "check" ELSE "send",
                                       sa |-> frame.sa, dedup |-> frame.pgn = pgnDM1,
                                       todo |-> entries]]
            /\ framesCh' = Tail(framesCh)
            /\ handed' = Head(framesCh)
            /\ UNCHANGED <<panicked, dtcClosed>>
       [] branch = "closed" ->
            /\ framesCh = <<>>
            /\ framesClosed
            /\ CanProcReturns(h)
            /\ UNCHANGED <<framesCh, data, handed>>
       [] branch = "stop" ->
            /\ stopClosed
            /\ CanProcReturns(h)
            /\ UNCHANGED <<framesCh, data, handed>>
  /\ UNCHANGED <<agent, mq, parsed, asm, pd, storeVars, serialVars, sinkVars, stopClosed, readers, fd,
                 framesClosed, seq, budget, stopMark, lastRet>>

\* The processor after the first entry of todo: the next pass of the loop of
\* parseDM1/parseDM2, or back in processFrames after the last one.
CanProcNext(proc) ==
  IF Len(proc.todo) > 1
  THEN [proc EXCEPT !.todo = Tail(@), !.pc = IF proc.dedup THEN "check" ELSE "send"]
  ELSE NewCanProc

\* parseDM1 with `continue` also when IsNew returned an error.
CanProcCheckDropsOnError(h, fail) ==
  /\ agent = "j1939"
  /\ ~panicked
  /\ procs[h].pc = "check"
  /\ LET entry == Head(procs[h].todo)
         o == IsNew(db, entry.spn, entry.fmi, fail)
     IN /\ db' = o.db
        /\ panicked' = o.panic
        /\ procs' = IF o.panic THEN procs
                    ELSE IF o.err \/ ~o.ret
                    THEN [procs EXCEPT ![h] = CanProcNext(procs[h])]
                    ELSE [procs EXCEPT ![h].pc = "send"]
  /\ UNCHANGED <<agent, mq, parsed, asm, pd, histVars, serialVars, consumer, published, doneClosed, dtcChan,
                 stopClosed, readers, data, fd, framesCh, framesClosed, dtcClosed,
                 seq, budget, stopMark, handed, lastRet>>

\* parseDM1: storage.IsNew on the entry; `continue` when it is not new, on
\* to the send when it is new or when IsNew returned an error.
CanProcCheck(h, fail) ==
  /\ agent = "j1939"
  /\ ~panicked
  /\ procs[h].pc = "check"
  /\ LET entry == Head(procs[h].todo)
         o == IsNew(db, entry.spn, entry.fmi, fail)
     IN /\ db' = o.db
        /\ panicked' = o.panic
        /\ procs' = IF o.panic THEN procs
                    ELSE IF ~o.err /\ ~o.ret
                    THEN [procs EXCEPT ![h] = CanProcNext(procs[h])]
                    ELSE [procs EXCEPT ![h].pc = "send"]
  /\ UNCHANGED <<agent, mq, parsed, asm, pd, histVars, serialVars, consumer, published, doneClosed, dtcChan,
                 stopClosed, readers, data, fd, framesCh, framesClosed, dtcClosed,
                 seq, budget, stopMark, handed, lastRet>>

\* parseDM1 and parseDM2: fp.dtcChan <- dtc, which waits while dtcChan holds
\* its 10 records and panics on a closed dtcChan.
CanProcSend(h) ==
  /\ agent = "j1939"
  /\ ~panicked
  /\ procs[h].pc = "send"
  /\ LET entry == Head(procs[h].todo)
         dtc == [mid |-> procs[h].sa, spn |-> entry.spn, fmi |-> entry.fmi,
                 oc |-> entry.oc]
     IN IF dtcClosed
        THEN panicked' = TRUE /\ UNCHANGED <<dtcChan, procs>>
        ELSE /\ Len(dtcChan) < DtcChanCap
             /\ dtcChan' = Append(dtcChan, dtc)
             /\ procs' = [procs EXCEPT ![h] = CanProcNext(procs[h])]
             /\ UNCHANGED panicked
  /\ UNCHANGED <<agent, mq, parsed, asm, pd, storeVars, serialVars, consumer, published, doneClosed,
                 stopClosed, readers, data, fd, framesCh, framesClosed, dtcClosed,
                 seq, budget, stopMark, handed, lastRet>>

\* main: go func() { ... } for the DTC records, after bus.Start().
ForwarderStart ==
  /\ agent = "j1939"
  /\ ~panicked
  /\ budget.sink
  /\ readers # <<>>
  /\ consumer = "idle"
  /\ consumer' = "run"
  /\ UNCHANGED <<agent, mq, parsed, asm, pd, panicked, storeVars, serialVars, dtcChan, published, doneClosed,
                 stopClosed, readers, procs, data, fd, framesCh, framesClosed,
                 dtcClosed, seq, budget, stopMark, handed, lastRet>>

\* The forwarder: case dtc, ok := <-bus.GetDTCChannel() with a record, and
\* mqttClient.PublishDTC(dtc), which sends nothing when the client is not
\* connected.
ForwarderRecv(connected) ==
  /\ agent = "j1939"
  /\ ~panicked
  /\ consumer = "run"
  /\ dtcChan # <<>>
  /\ dtcChan' = Tail(dtcChan)
  /\ published' = IF connected THEN published \cup {Head(dtcChan)} ELSE published
  /\ UNCHANGED <<agent, mq, parsed, asm, pd, panicked, storeVars, serialVars, consumer, doneClosed,
                 stopClosed, readers, procs, data, fd, framesCh, framesClosed,
                 dtcClosed, seq, budget, stopMark, handed, lastRet>>

\* The forwarder returns: !ok from the closed and empty dtcChan, or
\* case <-done.
ForwarderReturns(branch) ==
  /\ agent = "j1939"
  /\ ~panicked
  /\ consumer = "run"
  /\ CASE branch = "closed" -> dtcChan = <<>> /\ dtcClosed
       [] branch = "done" -> doneClosed
  /\ consumer' = "done"
  /\ UNCHANGED <<agent, mq, parsed, asm, pd, panicked, storeVars, serialVars, dtcChan, published, doneClosed,
                 stopClosed, readers, procs, data, fd, framesCh, framesClosed,
                 dtcClosed, seq, budget, stopMark, handed, lastRet>>

\* main, on SIGINT or SIGTERM: close(done). bus.Stop() comes after it.
CloseDone ==
  /\ agent = "j1939"
  /\ ~panicked
  /\ budget.sink
  /\ consumer # "idle"
  /\ ~doneClosed
  /\ ~stopClosed
  /\ doneClosed' = TRUE
  /\ UNCHANGED <<agent, mq, parsed, asm, pd, panicked, storeVars, serialVars, dtcChan, consumer, published,
                 stopClosed, readers, procs, data, fd, framesCh, framesClosed,
                 dtcClosed, seq, budget, stopMark, handed, lastRet>>

NextJ1939 ==
  \/ Start
  \/ Stop
  \/ \E g \in DOMAIN readers : CanReaderLoop(g)
  \/ \E g \in DOMAIN readers, outcome \in {"frame", "error", "empty"} : CanReaderRecv(g, outcome)
  \/ \E g \in DOMAIN readers, branch \in {"send", "stop", "default"} : CanReaderSend(g, branch)
  \/ \E h \in DOMAIN procs, branch \in {"frame", "closed", "stop"} : CanProcStep(h, branch)
  \/ \E h \in DOMAIN procs, fail \in Failures : CanProcCheck(h, fail)
  \/ \E h \in DOMAIN procs : CanProcSend(h)
  \/ ForwarderStart
  \/ \E connected \in BOOLEAN : ForwarderRecv(connected)
  \/ \E branch \in {"closed", "done"} : ForwarderReturns(branch)
  \/ CloseDone

SpecJ1939 == InitJ1939 /\ [][NextJ1939]_vars

\* Either agent.
SpecBus == (InitJ1587 \/ InitJ1939) /\ [][NextJ1587 \/ NextJ1939]_vars

(***************************************************************************)
(* cmd/agent-j1587: SendFrame and parseFrame applied to given inputs       *)
(***************************************************************************)

\* How many different frames SendFrame may write to the port.
MaxWrites == 1

\* The arguments of SendFrame: the sums of mid, pid and data include 0, 256
\* (the checksum byte wraps to 0) and values in between.
SendMids == {0, 128}
SendPids == {0, 128, PID_COMMAND_CLEAR_DTCS}
SendPayloads == {<<>>, <<255, 1>>}

\* The frames parseFrame is called with: a speed block; the same with a
\* wrong checksum byte; a DTC block with a wrong checksum byte; a speed
\* block and then an RPM block with one byte of two; a variable-length block
\* of length 0 and then a speed block; a speed block and then a
\* variable-length block declaring 5 bytes with 1 left; both of these in one
\* frame; a variable-length PID with no length byte; the DTC frame of the
\* pipeline; a frame of two bytes; a PID above 253; an RPM block, then PID
\* 255 and what would be a speed block; a block of PID 1 (no metric has it)
\* and then a speed block; a variable-length block of PID 200 (no metric)
\* with two bytes and then an RPM block.
Frames ==
  { Framed(<<128, PID_VEHICLE_SPEED, 60>>),
    <<128, PID_VEHICLE_SPEED, 60, 0>>,
    <<128, PID_ACTIVE_DTC, 3, 7, 35, 0, 1>>,
    Framed(<<128, PID_VEHICLE_SPEED, 60, PID_ENGINE_RPM, 1>>),
    Framed(<<128, PID_ACTIVE_DTC, 0, PID_VEHICLE_SPEED, 60>>),
    Framed(<<128, PID_VEHICLE_SPEED, 60, PID_ACTIVE_DTC, 5, 1>>),
    Framed(<<128, PID_ACTIVE_DTC, 0, PID_VEHICLE_SPEED, 60, PID_ACTIVE_DTC, 5, 1>>),
    Framed(<<128, PID_ACTIVE_DTC>>),
    DtcFrame,
    <<128, 128>>,
    Framed(<<128, 254, 1>>),
    Framed(<<128, PID_ENGINE_RPM, 31, 64, 255, PID_VEHICLE_SPEED, 60>>),
    Framed(<<128, 1, 9, PID_VEHICLE_SPEED, 60>>),
    Framed(<<128, 200, 2, 5, 6, PID_ENGINE_RPM, 31, 64>>) }

\* The offsets of data (from 0) that the PID walk of parseFrame reads from
\* `offset` on: the PID byte, the length byte of a variable-length PID, and
\* the bytes of data[offset : offset+dataLength].
RECURSIVE WalkReadsUnchecked(_, _)
WalkReadsUnchecked(bytes, offset) ==
  IF offset >= Len(bytes) THEN {}
  ELSE
    LET pid == bytes[offset + 1]
        off1 == offset + 1
        variable == pid >= 192 /\ pid <= 253
    IN {offset} \cup
       IF pid > 253 THEN {}
       ELSE IF variable /\ off1 >= Len(bytes) THEN {}
       ELSE
         LET dataLength == IF variable THEN bytes[off1 + 1]
                           ELSE getPIDDataLength(pid, bytes, off1).len
             off2 == IF variable THEN off1 + 1 ELSE off1
         IN (IF variable THEN {off1} ELSE {})
              \cup (off2 .. (off2 + dataLength - 1))
              \cup WalkReadsUnchecked(bytes, off2 + dataLength)

RECURSIVE WalkReads(_, _)
WalkReads(bytes, offset) ==
  IF offset >= Len(bytes) THEN {}
  ELSE
    LET pid == bytes[offset + 1]
        off1 == offset + 1
        variable == pid >= 192 /\ pid <= 253
    IN {offset} \cup
       IF pid > 253 THEN {}
       ELSE IF variable /\ off1 >= Len(bytes) THEN {}
       ELSE
         LET dataLength == IF variable THEN bytes[off1 + 1]
                           ELSE getPIDDataLength(pid, bytes, off1).len
             off2 == IF variable THEN off1 + 1 ELSE off1
         IN (IF variable THEN {off1} ELSE {})
              \cup IF off2 + dataLength > Len(bytes) THEN {}
                   ELSE (off2 .. (off2 + dataLength - 1))
                          \cup WalkReads(bytes, off2 + dataLength)

\* data := frame[1 : len(frame)-1]
FrameData(frame) == SubSeq(frame, 2, Len(frame) - 1)

\* The walk of parseFrame reads outside data: index out of range, a panic.
WalkPanics(frame) ==
  /\ validateJ1587Checksum(frame)
  /\ ~(WalkReads(FrameData(frame), 0) \subseteq 0 .. (Len(FrameData(frame)) - 1))

\* The PIDs with a case in the switch of processPIDData.
KnownPids ==
  { PID_VEHICLE_SPEED, PID_ENGINE_RPM, PID_COOLANT_TEMP, PID_OIL_PRESSURE,
    PID_ENGINE_LOAD, PID_FUEL_LEVEL, PID_BATTERY_VOLTAGE, PID_AMBIENT_TEMP,
    PID_TOTAL_DISTANCE, PID_ACTIVE_DTC, PID_PREVIOUSLY_ACTIVE_DTC }

\* The loop of parseFrame ending at the first PID without a case.
RECURSIVE ApplyBlocksStopAtUnknown(_, _, _)
ApplyBlocksStopAtUnknown(st, mid, blocks) ==
  IF blocks = <<>> THEN st
  ELSE LET block == Head(blocks)
           r == processPIDData(st, mid, block.pid, block.param)
       IN IF block.pid \notin KnownPids THEN st
          ELSE ApplyBlocksStopAtUnknown([r EXCEPT !.dropped = st.dropped \/ r.dropped],
                                        mid, Tail(blocks))

\* The loop of parseFrame: processPIDData on each block in turn.
RECURSIVE ApplyBlocks(_, _, _)
ApplyBlocks(st, mid, blocks) ==
  IF blocks = <<>> THEN st
  ELSE LET block == Head(blocks)
           r == processPIDData(st, mid, block.pid, block.param)
       IN ApplyBlocks([r EXCEPT !.dropped = st.dropped \/ r.dropped], mid, Tail(blocks))

\* A port that NewBus opened, with the bus not started or running (its
\* reader and processor idle: the frames come as arguments here).
InitFrames ==
  /\ asm = <<>>
  /\ pd = <<>>
  /\ mq = <<>>
  /\ agent = "frames"
  /\ parsed = <<>>
  /\ panicked = FALSE
  /\ db = FreshDB
  /\ recorded = {}
  /\ pristine = TRUE
  /\ prev = NoCall
  /\ last = NoCall
  /\ port = "open"
  /\ isRunning \in BOOLEAN
  /\ stopClosed = FALSE
  /\ readers = IF isRunning THEN <<NewReader>> ELSE <<>>
  /\ procs = IF isRunning THEN <<NewProc>> ELSE <<>>
  /\ dtcChan = <<>>
  /\ data = <<>>
  /\ consumer = "idle"
  /\ published = {}
  /\ written = {}
  /\ lastRet = "nil"
  /\ dropped = FALSE
  /\ NoCan

\* Bus.SendFrame(mid, pid, data): the frame is mid, pid, data and the
\* checksum of these; writeFails is the error of port.Write.
SendFrame(mid, pid, payload, writeFails) ==
  /\ agent = "frames"
  /\ ~panicked
  /\ IF port = "nil" \/ ~isRunning \/ writeFails
     THEN /\ lastRet' = "error"
          /\ UNCHANGED written
     ELSE LET frame == <<mid, pid>> \o payload
              frameWithChecksum == Append(frame, calculateJ1587Checksum(frame))
          IN /\ Cardinality(written \cup {frameWithChecksum}) <= MaxWrites
             /\ written' = written \cup {frameWithChecksum}
             /\ lastRet' = "nil"
  /\ UNCHANGED <<agent, mq, parsed, asm, pd, canVars, panicked, storeVars, port, isRunning, stopClosed,
                 readers, procs, dtcChan, data, consumer, published, dropped>>

\* Bus.parseFrame(frame), the whole call.
parseFrame(frame) ==
  /\ agent = "frames"
  /\ ~panicked
  /\ procs # <<>>
  /\ parsed' = frame
  /\ IF WalkPanics(frame)
     THEN /\ panicked' = TRUE
          /\ UNCHANGED <<data, dtcChan, dropped>>
     ELSE LET mid == IF frame = <<>> THEN 0 ELSE frame[1]
              st == ApplyBlocks([data |-> data, dtc |-> dtcChan, dropped |-> dropped],
                                mid, Blocks(frame))
          IN /\ data' = st.data
             /\ dtcChan' = st.dtc
             /\ dropped' = st.dropped
             /\ UNCHANGED panicked
  /\ UNCHANGED <<agent, mq, asm, pd, canVars, storeVars, port, isRunning, stopClosed, readers,
                 procs, consumer, published, written, lastRet>>

NextFrames ==
  \/ \E mid \in SendMids, pid \in SendPids, payload \in SendPayloads,
        writeFails \in BOOLEAN : SendFrame(mid, pid, payload, writeFails)
  \/ \E frame \in Frames : parseFrame(frame)

SpecFrames == InitFrames /\ [][NextFrames]_vars

(***************************************************************************)
(* cmd/agent-j1587: readFrames on a byte stream with arrival times         *)
(***************************************************************************)

\* interFrameGap = 4 * time.Millisecond; the clock counts milliseconds.
interFrameGap == 4

\* The latest time a read returns.
MaxClock == 10

\* The gaps between consecutive bytes of a stream: below the frame gap, and
\* the frame gap.
Gaps == {3, 4}

\* Three bytes and the times they arrive on the line, the first at 0.
Streams ==
  { << [byte |-> 1, t |-> 0], [byte |-> 2, t |-> g1], [byte |-> 3, t |-> g1 + g2] >> :
      g1 \in Gaps, g2 \in Gaps }

\* readFrames at its start on `stream`: pos bytes of the stream have been
\* read, frame = nil, last = time.Now() (0), out the frames sent, cuts the
\* positions in the stream of the first byte after each send; clock is the
\* time.
NewAsm(stream) ==
  [stream |-> stream, pos |-> 0, frame |-> <<>>, last |-> 0, clock |-> 0,
   out |-> <<>>, cuts |-> {}]

InitAssembler ==
  /\ agent = "assembler"
  /\ parsed = <<>>
  /\ pd = <<>>
  /\ mq = <<>>
  /\ asm \in {NewAsm(stream) : stream \in Streams}
  /\ panicked = FALSE
  /\ db = FreshDB
  /\ recorded = {}
  /\ pristine = TRUE
  /\ prev = NoCall
  /\ last = NoCall
  /\ NoBus
  /\ NoCan

\* The pass with the first byte appended before the test of the gap: the
\* frame sent ends with that byte.
AsmReadAppendFirst(n, now) ==
  /\ agent = "assembler"
  /\ n >= 1
  /\ asm.pos + n <= Len(asm.stream)
  /\ now >= asm.clock
  /\ now <= MaxClock
  /\ asm.stream[asm.pos + n].t <= now
  /\ LET bytes == [i \in 1 .. n |-> asm.stream[asm.pos + i].byte]
         flush == now - asm.last >= interFrameGap /\ Len(asm.frame) > 0
     IN asm' = [asm EXCEPT !.pos = @ + n,
                           !.out = IF flush THEN Append(@, Append(asm.frame, bytes[1])) ELSE @,
                           !.cuts = IF flush THEN @ \cup {asm.pos + 2} ELSE @,
                           !.frame = IF flush THEN Tail(bytes) ELSE @ \o bytes,
                           !.last = now,
                           !.clock = now]
  /\ UNCHANGED <<agent, mq, parsed, pd, panicked, storeVars, busVars, canVars>>

\* One pass of the loop of readFrames in which port.Read returns n >= 1
\* bytes at time `now`: the bytes are the next n of the stream, all arrived
\* by then. now is taken once for the read; the first byte sends the frame
\* collected so far when now - last >= interFrameGap, and sets last = now.
AsmRead(n, now) ==
  /\ agent = "assembler"
  /\ n >= 1
  /\ asm.pos + n <= Len(asm.stream)
  /\ now >= asm.clock
  /\ now <= MaxClock
  /\ asm.stream[asm.pos + n].t <= now
  /\ LET bytes == [i \in 1 .. n |-> asm.stream[asm.pos + i].byte]
         flush == now - asm.last >= interFrameGap /\ Len(asm.frame) > 0
     IN asm' = [asm EXCEPT !.pos = @ + n,
                           !.out = IF flush THEN Append(@, asm.frame) ELSE @,
                           !.cuts = IF flush THEN @ \cup {asm.pos + 1} ELSE @,
                           !.frame = IF flush THEN bytes ELSE @ \o bytes,
                           !.last = now,
                           !.clock = now]
  /\ UNCHANGED <<agent, mq, parsed, pd, panicked, storeVars, busVars, canVars>>

\* One pass in which port.Read returns no byte (its timeout, or an error) at
\* time `now`: the frame collected so far is sent when now - last >=
\* interFrameGap.
AsmIdle(now) ==
  /\ agent = "assembler"
  /\ now >= asm.clock
  /\ now <= MaxClock
  /\ LET flush == Len(asm.frame) > 0 /\ now - asm.last >= interFrameGap
     IN asm' = [asm EXCEPT !.out = IF flush THEN Append(@, asm.frame) ELSE @,
                           !.cuts = IF flush THEN @ \cup {asm.pos + 1} ELSE @,
                           !.frame = IF flush THEN <<>> ELSE @,
                           !.clock = now]
  /\ UNCHANGED <<agent, mq, parsed, pd, panicked, storeVars, busVars, canVars>>

NextAssembler ==
  \/ \E n \in 1 .. 3, now \in 0 .. MaxClock : AsmRead(n, now)
  \/ \E now \in 0 .. MaxClock : AsmIdle(now)

SpecAssembler == InitAssembler /\ [][NextAssembler]_vars

(***************************************************************************)
(* cmd/agent-j1939: ProcessFrame applied to given frames                   *)
(***************************************************************************)

\* EEC1 payloads: torque byte, and low and high byte of the engine speed,
\* each the sentinel 0xFF or a value (FF FF FF 10 27 FF FF FF is among
\* them), and a payload of 4 bytes.
EecPayloads ==
  { <<255, 255, b2, b3, b4, 255, 255, 255>> :
      b2 \in {255, 125, 130}, b3 \in {255, 16}, b4 \in {255, 39} }
    \cup { <<255, 255, 130, 16>> }

\* The PGNs of the frames: EEC1, and one the switch of ProcessFrame has no
\* case for.
DecodePgns == {pgnEEC1, 0}

\* A FrameProcessor with an empty metric table, as NewBus makes it.
InitCanDecode ==
  /\ agent = "candecode"
  /\ asm = <<>>
  /\ pd = <<>>
  /\ mq = <<>>
  /\ parsed = <<>>
  /\ panicked = FALSE
  /\ db = FreshDB
  /\ recorded = {}
  /\ pristine = TRUE
  /\ prev = NoCall
  /\ last = NoCall
  /\ NoBus
  /\ fd = 3
  /\ framesCh = <<>>
  /\ framesClosed = FALSE
  /\ dtcClosed = FALSE
  /\ seq = 0
  /\ budget = [starts |-> 0, frames |-> 0, traffic |-> "eec1", sink |-> FALSE]
  /\ doneClosed = FALSE
  /\ stopMark = 0
  /\ handed = 0

\* fp.ProcessFrame(pgn, 0, data), the whole call, for a PGN that sends no
\* DTC record.
DecodeFrame(pgn, bytes) ==
  /\ agent = "candecode"
  /\ ~panicked
  /\ data' = ProcessFrame(data, pgn, 0, bytes)
  /\ parsed' = [pgn |-> pgn, data |-> bytes]
  /\ UNCHANGED <<agent, mq, asm, pd, panicked, storeVars, canVars, port, isRunning, stopClosed,
                 readers, procs, dtcChan, consumer, published, written, lastRet, dropped>>

NextCanDecode == \E pgn \in DecodePgns, bytes \in EecPayloads : DecodeFrame(pgn, bytes)

SpecCanDecode == InitCanDecode /\ [][NextCanDecode]_vars

(***************************************************************************)
(* cmd/agent-j1939: parseDM1 applied to given payloads                     *)
(***************************************************************************)

\* The most records dtcChan holds when a parseDM1 call returns.
MaxPending == 2

\* The bytes of the DM1 payloads: lamp status 00 00, the entries 01 02 43 05
\* and 09 00 04 01, and one byte more.
Dm1Bytes == <<0, 0, 1, 2, 67, 5, 9, 0, 4, 1, 7>>

\* The payloads: prefixes of Dm1Bytes, from the empty one to the whole, with
\* lengths on both sides of 6 and of each 2 + N*4.
Dm1Payloads == { SubSeq(Dm1Bytes, 1, n) : n \in {0, 2, 5, 6, 7, 9, 10, 11} }

\* The source addresses of the frames.
Dm1Sources == {0, 33}

\* The loop of parseDM1 with the source address folded into the key that
\* IsNew looks up.
RECURSIVE parseDM1LoopKeyedBySource(_, _, _, _)
parseDM1LoopKeyedBySource(st, sa, entries, fail) ==
  IF entries = <<>> \/ st.panic THEN st
  ELSE LET entry == Head(entries)
           o == IsNew(st.db, entry.spn, entry.fmi + 32 * sa, fail)
           dtc == [mid |-> sa, spn |-> entry.spn, fmi |-> entry.fmi, oc |-> entry.oc]
       IN IF o.panic THEN [st EXCEPT !.db = o.db, !.panic = TRUE]
          ELSE IF ~o.err /\ ~o.ret
               THEN parseDM1LoopKeyedBySource([st EXCEPT !.db = o.db], sa, Tail(entries), fail)
               ELSE parseDM1LoopKeyedBySource([st EXCEPT !.db = o.db, !.dtc = Append(@, dtc)],
                                              sa, Tail(entries), fail)

\* The loop of parseDM1 over the decoded entries, on st = the database,
\* dtcChan and whether IsNew panicked: storage.IsNew, `continue` for an
\* entry that is not new, else fp.dtcChan <- dtc (also after an error of
\* IsNew).
RECURSIVE parseDM1Loop(_, _, _, _)
parseDM1Loop(st, sa, entries, fail) ==
  IF entries = <<>> \/ st.panic THEN st
  ELSE LET entry == Head(entries)
           o == IsNew(st.db, entry.spn, entry.fmi, fail)
           dtc == [mid |-> sa, spn |-> entry.spn, fmi |-> entry.fmi, oc |-> entry.oc]
       IN IF o.panic THEN [st EXCEPT !.db = o.db, !.panic = TRUE]
          ELSE IF ~o.err /\ ~o.ret
               THEN parseDM1Loop([st EXCEPT !.db = o.db], sa, Tail(entries), fail)
               ELSE parseDM1Loop([st EXCEPT !.db = o.db, !.dtc = Append(@, dtc)],
                                 sa, Tail(entries), fail)

\* A FrameProcessor with its database open and dtcChan empty, as NewBus
\* makes it.
InitDm ==
  /\ agent = "dm"
  /\ asm = <<>>
  /\ pd = <<>>
  /\ mq = <<>>
  /\ parsed = <<>>
  /\ panicked = FALSE
  /\ db = FreshDB
  /\ recorded = {}
  /\ pristine = TRUE
  /\ prev = NoCall
  /\ last = NoCall
  /\ NoBus
  /\ fd = 3
  /\ framesCh = <<>>
  /\ framesClosed = FALSE
  /\ dtcClosed = FALSE
  /\ seq = 0
  /\ budget = [starts |-> 0, frames |-> 0, traffic |-> "dm", sink |-> TRUE]
  /\ doneClosed = FALSE
  /\ stopMark = 0
  /\ handed = 0

\* fp.parseDM1(data, sa), a call that returns: dtcChan has room for every
\* record it sends. fail is what db.Update does in the IsNew calls.
DecodeDm1(bytes, sa, fail) ==
  /\ agent = "dm"
  /\ ~panicked
  /\ LET st == parseDM1Loop([db |-> db, dtc |-> dtcChan, panic |-> FALSE],
                            sa, DmEntries(bytes), fail)
     IN /\ Len(st.dtc) <= MaxPending
        /\ Len(st.dtc) <= DtcChanCap
        /\ db' = st.db
        /\ dtcChan' = st.dtc
        /\ panicked' = st.panic
  /\ parsed' = [pgn |-> pgnDM1, sa |-> sa, data |-> bytes, fail |-> fail]
  /\ UNCHANGED <<agent, mq, asm, pd, histVars, canVars, port, isRunning, stopClosed,
                 readers, procs, data, consumer, published, written, lastRet, dropped>>

\* main's forwarder takes a record from dtcChan.
DmForward ==
  /\ agent = "dm"
  /\ ~panicked
  /\ dtcChan # <<>>
  /\ dtcChan' = Tail(dtcChan)
  /\ UNCHANGED <<agent, mq, parsed, asm, pd, panicked, storeVars, canVars, port, isRunning,
                 stopClosed, readers, procs, data, consumer, published, written, lastRet,
                 dropped>>

NextDm ==
  \/ \E bytes \in Dm1Payloads, sa \in Dm1Sources, fail \in Failures :
       DecodeDm1(bytes, sa, fail)
  \/ DmForward

SpecDm == InitDm /\ [][NextDm]_vars

(***************************************************************************)
(* pkg/mqtt: MQTTClient, StartPublishing and the publisher task            *)
(***************************************************************************)

\* How many update intervals elapse in a run.
MaxTicks == 3

\* The speeds the bus stores in the metric table while the client runs.
PubSpeeds == {1, 2}

\* NewClient and Connect have returned: stopChan is open, no ticker yet.
\* pc is the position of main ("new": before StartPublishing, "spawned":
\* inside it, after the go statement, "returned"); ticker is "none",
\* "running" or "stopped" and tick tells whether ticker.C has a tick to
\* deliver; task is the publisher ("none", "select", "done"); ticks counts
\* the intervals elapsed since NewTicker; sent is what publishData has
\* published; owed is history: an interval has elapsed after StartPublishing
\* returned, with stopChan open, and publishData has not run since.
NewMq ==
  [pc |-> "new", ticker |-> "none", tick |-> FALSE, task |-> "none",
   stopClosed |-> FALSE, ticks |-> 0, sent |-> <<>>, owed |-> FALSE]

InitPublisher ==
  /\ agent = "publisher"
  /\ asm = <<>>
  /\ pd = <<>>
  /\ mq = NewMq
  /\ parsed = <<>>
  /\ panicked = FALSE
  /\ db = FreshDB
  /\ recorded = {}
  /\ pristine = TRUE
  /\ prev = NoCall
  /\ last = NoCall
  /\ NoBus
  /\ NoCan

pubRest == <<agent, parsed, asm, pd, panicked, storeVars, canVars, port, isRunning,
             stopClosed, readers, procs, dtcChan, consumer, published, written, lastRet,
             dropped>>

\* StartPublishing up to its go statement: time.NewTicker(UpdateInterval),
\* defer ticker.Stop(), the log line, and the publisher task started.
StartPublishingCall ==
  /\ agent = "publisher"
  /\ ~panicked
  /\ mq.pc = "new"
  /\ mq' = [mq EXCEPT !.pc = "spawned", !.ticker = "running", !.task = "select"]
  /\ UNCHANGED <<pubRest, data>>

\* StartPublishing returns: the deferred ticker.Stop() runs. After Stop no
\* tick is delivered, one prepared before it included.
StartPublishingReturn ==
  /\ agent = "publisher"
  /\ ~panicked
  /\ mq.pc = "spawned"
  /\ mq' = [mq EXCEPT !.pc = "returned", !.ticker = "stopped", !.tick = FALSE]
  /\ UNCHANGED <<pubRest, data>>

\* An update interval elapses: a running ticker has a tick to deliver (one
\* at most: the runtime drops ticks for a slow receiver).
IntervalElapses ==
  /\ agent = "publisher"
  /\ ~panicked
  /\ mq.ticker # "none"
  /\ mq.ticks < MaxTicks
  /\ mq' = [mq EXCEPT !.ticks = @ + 1,
                      !.tick = @ \/ mq.ticker = "running",
                      !.owed = @ \/ (mq.pc = "returned" /\ ~mq.stopClosed)]
  /\ UNCHANGED <<pubRest, data>>

\* The publisher: case <-ticker.C, and publishData(): dataSource(), its
\* MarshalJSON, client.Publish; ok is whether Publish succeeded.
PublisherTick(ok) ==
  /\ agent = "publisher"
  /\ ~panicked
  /\ mq.task = "select"
  /\ mq.tick
  /\ mq' = [mq EXCEPT !.tick = FALSE, !.owed = FALSE,
                      !.sent = IF ok THEN Append(@, data) ELSE @]
  /\ UNCHANGED <<pubRest, data>>

\* The publisher: case <-c.stopChan, return.
PublisherStop ==
  /\ agent = "publisher"
  /\ ~panicked
  /\ mq.task = "select"
  /\ mq.stopClosed
  /\ mq' = [mq EXCEPT !.task = "done"]
  /\ UNCHANGED <<pubRest, data>>

\* StopPublishing: close(c.stopChan); closing a closed channel panics.
StopPublishing ==
  /\ agent = "publisher"
  /\ ~panicked
  /\ mq.pc = "returned"
  /\ IF mq.stopClosed
     THEN panicked' = TRUE /\ UNCHANGED mq
     ELSE mq' = [mq EXCEPT !.stopClosed = TRUE] /\ UNCHANGED panicked
  /\ UNCHANGED <<agent, parsed, asm, pd, storeVars, canVars, port, isRunning,
                 stopClosed, readers, procs, dtcChan, consumer, published, written, lastRet,
                 dropped, data>>

\* The bus stores a speed in the metric table the dataSource returns.
MetricSet(speed) ==
  /\ agent = "publisher"
  /\ ~panicked
  /\ data' = Set(data, "Speed", <<speed, 1>>)
  /\ UNCHANGED <<pubRest, mq>>

NextPublisher ==
  \/ StartPublishingCall
  \/ StartPublishingReturn
  \/ IntervalElapses
  \/ \E ok \in BOOLEAN : PublisherTick(ok)
  \/ PublisherStop
  \/ StopPublishing
  \/ \E speed \in PubSpeeds : MetricSet(speed)

SpecPublisher == InitPublisher /\ [][NextPublisher]_vars

\* The scheduler runs main and the publisher task whenever they can step.
LivePublisher ==
  /\ SpecPublisher
  /\ WF_vars(StartPublishingReturn)
  /\ WF_vars(\E ok \in BOOLEAN : PublisherTick(ok))
  /\ WF_vars(PublisherStop)

(***************************************************************************)
(* ProtectedData: the metric table, its RWMutex and its callers            *)
(***************************************************************************)

\* The goroutines calling Set (the processors) and those calling Get,
\* MarshalJSON and Copy (the publisher, a command handler).
Setters == {"w1", "w2"}
Getters == {"r1", "r2"}

\* The keys and values the setters write.
TableKeys == {"Speed"}
TableValues == {1, 2}

\* A caller outside every method: snap is the map its last Copy returned
\* ("none", or the name of the map on the heap), snapValue what that map
\* held when Copy returned it.
IdleTask ==
  [pc |-> "idle", op |-> "none", key |-> "none", value |-> 0, snap |-> "none",
   snapValue |-> <<>>]

\* NewProtectedData(): the mutex free, pd.Data (heap.data) empty; heap[r] is
\* the map the last Copy of caller r made.
InitTable ==
  /\ agent = "table"
  /\ asm = <<>>
  /\ parsed = <<>>
  /\ mq = <<>>
  /\ pd = [writer |-> FALSE, readers |-> 0,
           heap |-> [m \in {"data"} \cup Getters |-> <<>>],
           tasks |-> [t \in Setters \cup Getters |-> IdleTask]]
  /\ panicked = FALSE
  /\ db = FreshDB
  /\ recorded = {}
  /\ pristine = TRUE
  /\ prev = NoCall
  /\ last = NoCall
  /\ NoBus
  /\ NoCan

\* What a step on the ProtectedData leaves alone.
tableRest == <<agent, mq, parsed, asm, panicked, storeVars, busVars, canVars>>

\* Set with no wait for the mutex.
PdSetLockUnguarded(t, key, value) ==
  /\ agent = "table"
  /\ pd.tasks[t].pc = "idle"
  /\ pd' = [pd EXCEPT !.writer = TRUE,
                      !.tasks[t] = [@ EXCEPT !.pc = "locked", !.op = "Set",
                                             !.key = key, !.value = value]]
  /\ UNCHANGED tableRest

\* Set: pd.mutex.Lock() returns when no goroutine holds the mutex for
\* reading or writing.
PdSetLock(t, key, value) ==
  /\ agent = "table"
  /\ pd.tasks[t].pc = "idle"
  /\ ~pd.writer
  /\ pd.readers = 0
  /\ pd' = [pd EXCEPT !.writer = TRUE,
                      !.tasks[t] = [@ EXCEPT !.pc = "locked", !.op = "Set",
                                             !.key = key, !.value = value]]
  /\ UNCHANGED tableRest

\* Set: pd.Data[key] = value
PdSetWrite(t) ==
  /\ agent = "table"
  /\ pd.tasks[t].pc = "locked"
  /\ pd' = [pd EXCEPT !.heap.data = Set(@, pd.tasks[t].key, pd.tasks[t].value),
                      !.tasks[t].pc = "written"]
  /\ UNCHANGED tableRest

\* Set: the deferred pd.mutex.Unlock()
PdSetUnlock(t) ==
  /\ agent = "table"
  /\ pd.tasks[t].pc = "written"
  /\ pd' = [pd EXCEPT !.writer = FALSE, !.tasks[t].pc = "idle"]
  /\ UNCHANGED tableRest

\* Get, MarshalJSON, Copy: pd.mutex.RLock() returns when no goroutine holds
\* the mutex for writing.
PdReadLock(t, op, key) ==
  /\ agent = "table"
  /\ pd.tasks[t].pc = "idle"
  /\ ~pd.writer
  /\ pd' = [pd EXCEPT !.readers = @ + 1,
                      !.tasks[t] = [@ EXCEPT !.pc = "rlocked", !.op = op, !.key = key]]
  /\ UNCHANGED tableRest

\* The body under the read lock: Get reads pd.Data[key], MarshalJSON copies
\* pd.Data into dataToMarshal and marshals that, Copy makes a new map, fills
\* it from pd.Data and returns it in a copiedDataMarshaler.
PdRead(t) ==
  /\ agent = "table"
  /\ pd.tasks[t].pc = "rlocked"
  /\ pd' = IF pd.tasks[t].op = "Copy"
           THEN [pd EXCEPT !.heap[t] = pd.heap.data,
                           !.tasks[t] = [@ EXCEPT !.pc = "read", !.snap = t,
                                                  !.snapValue = pd.heap.data]]
           ELSE [pd EXCEPT !.tasks[t].pc = "read"]
  /\ UNCHANGED tableRest

\* The deferred pd.mutex.RUnlock()
PdReadUnlock(t) ==
  /\ agent = "table"
  /\ pd.tasks[t].pc = "read"
  /\ pd' = [pd EXCEPT !.readers = @ - 1, !.tasks[t].pc = "idle"]
  /\ UNCHANGED tableRest

NextTable ==
  \/ \E t \in Setters, key \in TableKeys, value \in TableValues : PdSetLock(t, key, value)
  \/ \E t \in Setters : PdSetWrite(t)
  \/ \E t \in Setters : PdSetUnlock(t)
  \/ \E t \in Getters, op \in {"Get", "MarshalJSON", "Copy"}, key \in TableKeys :
       PdReadLock(t, op, key)
  \/ \E t \in Getters : PdRead(t)
  \/ \E t \in Getters : PdReadUnlock(t)

SpecTable == InitTable /\ [][NextTable]_vars

(***************************************************************************)
(* cmd/agent-j1587: properties of the bus life cycle and of its channels   *)
(***************************************************************************)

\* C5: once StopReading has stopped a running bus (the stop signal is
\* closed), no StartReading call returns success or sets isRunning again.
C5_StoppedIsTerminal ==
  [][(stopClosed /\ StartReading) => (lastRet' = "error" /\ ~isRunning')]_vars

\* C6: StartReading with a nil port or on a running bus returns an error,
\* starts no task and leaves isRunning as it was; any other StartReading
\* returns nil, sets isRunning and starts exactly one reader and one
\* processor, both at the top of their loops.
C6_StartReadingGuards ==
  [][StartReading =>
       IF port = "nil" \/ isRunning
       THEN /\ lastRet' = "error"
            /\ readers' = readers
            /\ procs' = procs
            /\ isRunning' = isRunning
       ELSE /\ lastRet' = "nil"
            /\ isRunning'
            /\ readers' = Append(readers, NewReader)
            /\ procs' = Append(procs, NewProc)]_vars

\* A second StartReading on a running bus has returned its error: the bus
\* still has the one reader and the one processor of the first call.
C6_Witness ==
  /\ isRunning
  /\ lastRet = "error"
  /\ written = {}
  /\ Len(readers) = 1
  /\ Len(procs) = 1
  /\ readers[1].buf = DtcFrame

\* C9: a reader holding a completed frame can always hand it over or drop
\* it: it is never left waiting for the processor.
C9_ReaderNeverBlocks ==
  \A g \in DOMAIN readers :
    (~panicked /\ readers[g].pc = "send") => ENABLED ReaderSend(g)

\* C10: dtcChan never holds more than 10 records; a processor inside a
\* frame can always take its next step; and when dtcChan holds 10 records
\* that step can only leave dtcChan as it is and move on to the next PID
\* block of the frame, or to the next frame after the last block.
C10_ProcessorNeverBlocks ==
  /\ Len(dtcChan) <= DtcChanCap
  /\ \A h \in DOMAIN procs :
       (~panicked /\ procs[h].pc = "parse")
         => /\ ENABLED ProcParse(h)
            /\ Len(dtcChan) = DtcChanCap
                 => ~ENABLED (/\ ProcParse(h)
                              /\ \/ dtcChan' # dtcChan
                                 \/ procs'[h] #
                                      IF Len(procs[h].todo) > 1
                                      THEN [procs[h] EXCEPT !.todo = Tail(@)]
                                      ELSE NewProc)

\* A DTC record was dropped at a full dtcChan, the walk went on to the speed
\* block after it, and the processor is waiting for the next frame.
C10_Witness ==
  /\ dropped
  /\ Len(dtcChan) = DtcChanCap
  /\ "Speed" \in DOMAIN data
  /\ data["Speed"] = <<60, 1>>
  /\ \E h \in DOMAIN procs : procs[h].pc = "recv"

(***************************************************************************)
(* Properties of both buses and of the J1939 pipeline                      *)
(***************************************************************************)

\* C4: a StopReading on a J1587 bus that is stopped, and a Stop on a J1939
\* bus that is stopped, return no error, do not panic on a second close of
\* the stop signal, and leave every field of the bus and every task as it
\* was (the stop signal stays closed, the socket stays -1).
C4_StopTwiceIsNoOp ==
  [][(\/ agent = "j1587" /\ stopClosed /\ ~isRunning /\ StopReading
      \/ agent = "j1939" /\ stopClosed /\ fd = -1 /\ Stop)
       => /\ lastRet' = "idle"
          /\ ~panicked'
          /\ UNCHANGED <<port, isRunning, stopClosed, fd, readers, procs, dtcChan,
                         framesCh, framesClosed, dtcClosed, data>>]_vars

\* A J1939 bus that was started and stopped has just been stopped again.
C4_Witness ==
  /\ agent = "j1939"
  /\ ~panicked
  /\ lastRet = "idle"
  /\ stopClosed
  /\ fd = -1
  /\ Len(readers) = 1

\* C7: a J1939 bus has at most one live reader and at most one live
\* processor.
C7_OnePipeline ==
  agent = "j1939" =>
    /\ Cardinality({g \in DOMAIN readers : readers[g].pc # "done"}) <= 1
    /\ Cardinality({h \in DOMAIN procs : procs[h].pc # "done"}) <= 1

\* C8: framesCh never holds more than 100 frames; a reader holding a frame
\* can always take its next step; and when framesCh holds 100 frames that
\* step can only leave framesCh as it is and let go of the frame, the reader
\* going back to the top of its loop, or returning if the stop signal is
\* closed.
C8_ReaderNeverBlocks ==
  /\ Len(framesCh) <= FramesChCap
  /\ \A g \in DOMAIN readers :
       (agent = "j1939" /\ ~panicked /\ readers[g].pc = "send")
         => /\ \E branch \in {"send", "stop", "default"} : ENABLED CanReaderSend(g, branch)
            /\ Len(framesCh) = FramesChCap
                 => \A branch \in {"send", "stop", "default"} :
                      ~ENABLED (/\ CanReaderSend(g, branch)
                                /\ \/ framesCh' # framesCh
                                   \/ readers'[g] # IF stopClosed
                                                    THEN [pc |-> "done", frame |-> 0]
                                                    ELSE NewCanReader)

\* framesCh is full, frame 101 was read and dropped, and after the processor
\* took a frame the reader put frame 102 behind frame 100.
C8_Witness ==
  /\ agent = "j1939"
  /\ Len(framesCh) = FramesChCap
  /\ framesCh[FramesChCap - 1] = FramesChCap
  /\ framesCh[FramesChCap] = FramesChCap + 2
  /\ seq = FramesChCap + 2

(***************************************************************************)
(* Properties of the J1939 DTC channel and of stopping                     *)
(***************************************************************************)

\* C11: a J1939 processor inside parseDM1 or parseDM2 with a record to send
\* can always take its next step, also when dtcChan holds 10 records: it
\* never waits on dtcChan.
C11_CanProcessorNeverBlocks ==
  \A h \in DOMAIN procs :
    (agent = "j1939" /\ ~panicked /\ procs[h].pc = "send") => ENABLED CanProcSend(h)

\* The goroutines of the J1587 agent, as the Go scheduler runs them: a
\* goroutine that can take a step is not left waiting forever.
ReaderStepJ1587 ==
  \E g \in DOMAIN readers :
    \/ ReaderExit(g)
    \/ \E chunk \in Chunks, gap \in BOOLEAN : ReaderRead(g, chunk, gap)
ProcStepJ1587 ==
  \E h \in DOMAIN procs :
    \/ ProcExit(h)
    \/ ProcParse(h)
    \/ \E g \in DOMAIN readers : ProcRecv(h, g)
ConsumerStepJ1587 ==
  \/ ConsumerExit
  \/ \E fail \in Failures, connected \in BOOLEAN : ConsumerRecv(fail, connected)

LiveJ1587 ==
  /\ SpecJ1587
  /\ WF_vars(ReaderStepJ1587)
  /\ WF_vars(ProcStepJ1587)
  /\ WF_vars(ConsumerStepJ1587)

\* C12: once StopReading has closed the stop signal, every reader and every
\* processor of the J1587 bus eventually returns (the process dying of a
\* panic ends them too).
C12_TasksExitAfterStop ==
  (agent = "j1587" /\ stopClosed)
    ~> \/ panicked
       \/ /\ \A g \in DOMAIN readers : readers[g].pc = "done"
          /\ \A h \in DOMAIN procs : procs[h].pc = "done"

\* The goroutines of the J1939 agent under the Go scheduler. A reader
\* inside unix.Recvfrom is taken to return in the end (a frame, an error, or
\* the error of the closed socket).
ReaderStepJ1939 ==
  \E g \in DOMAIN readers :
    \/ CanReaderLoop(g)
    \/ \E outcome \in {"frame", "error", "empty"} : CanReaderRecv(g, outcome)
    \/ \E branch \in {"send", "stop", "default"} : CanReaderSend(g, branch)
ProcStepJ1939 ==
  \E h \in DOMAIN procs :
    \/ \E branch \in {"frame", "closed", "stop"} : CanProcStep(h, branch)
    \/ \E fail \in Failures : CanProcCheck(h, fail)
    \/ CanProcSend(h)
ForwarderStepJ1939 ==
  \/ \E connected \in BOOLEAN : ForwarderRecv(connected)
  \/ \E branch \in {"closed", "done"} : ForwarderReturns(branch)

LiveJ1939 ==
  /\ SpecJ1939
  /\ WF_vars(ReaderStepJ1939)
  /\ WF_vars(ProcStepJ1939)
  /\ WF_vars(ForwarderStepJ1939)

\* C13: once Stop has closed the stop signal of a J1939 bus that was
\* started, every reader and every processor eventually returns and
\* framesCh and dtcChan are eventually closed (the process dying of a panic
\* ends them too).
C13_CanTasksExitAfterStop ==
  (agent = "j1939" /\ stopClosed /\ readers # <<>>)
    ~> \/ panicked
       \/ /\ \A g \in DOMAIN readers : readers[g].pc = "done"
          /\ \A h \in DOMAIN procs : procs[h].pc = "done"
          /\ framesClosed
          /\ dtcClosed

\* C14: when dtcChan of a J1939 bus (started once) is closed, no frame
\* that was in framesCh when Stop closed the stop signal is still in
\* framesCh: the frames queued before Stop were handed to ProcessFrame first.
C14_DrainBeforeClose ==
  (agent = "j1939" /\ Len(readers) = 1 /\ dtcClosed)
    => \A i \in DOMAIN framesCh : framesCh[i] > stopMark

\* C15: every frame a J1939 processor hands to ProcessFrame came from the
\* socket after the frame handed to ProcessFrame before it: the frames are
\* decoded in the order of their arrival, none of them twice.
C15_FramesInOrder ==
  [][\A h \in DOMAIN procs :
       (agent = "j1939" /\ CanProcStep(h, "frame")) => Head(framesCh) > handed]_vars

\* C16: every frame SendFrame writes to the port is a sequence of bytes that
\* validateJ1587Checksum accepts, i.e. its bytes sum to 0 mod 256, also when
\* mid, pid and data already sum to a multiple of 256.
C16_ChecksumRoundTrip ==
  \A f \in written :
    /\ \A i \in DOMAIN f : f[i] \in 0 .. 255
    /\ validateJ1587Checksum(f)
    /\ ByteSum(f) % 256 = 0

\* SendFrame has written a frame whose mid, pid and data sum to 256.
C16_Witness ==
  /\ agent = "frames"
  /\ \E f \in written :
       /\ Len(f) = 5
       /\ ByteSum(SubSeq(f, 1, Len(f) - 1)) = 256
       /\ f[Len(f)] = 0

\* C17: a parseFrame call on a frame whose bytes do not sum to 0 mod 256
\* leaves the metric table and the DTC channel as they were.
C17_BadChecksumNotProcessed ==
  [][\A frame \in Frames :
       (parseFrame(frame) /\ ByteSum(frame) % 256 # 0) => UNCHANGED <<data, dtcChan>>]_vars

\* parseFrame has been called on a frame of complete PID blocks whose bytes do
\* not sum to 0 mod 256, and no metric and no DTC record has been written.
C17_Witness ==
  /\ agent = "frames"
  /\ Len(parsed) >= 3
  /\ ByteSum(parsed) % 256 # 0
  /\ Walk(FrameData(parsed), 0) # <<>>
  /\ data = <<>>
  /\ dtcChan = <<>>

\* The block starting at offset o of data is complete: its PID is valid, its
\* length byte (PID 192..253) is there, and its data bytes are all there.
Complete(bytes, o) ==
  LET pid == bytes[o + 1] IN
    \/ pid <= 127 /\ o + 2 <= Len(bytes)
    \/ pid >= 128 /\ pid <= 191 /\ o + 3 <= Len(bytes)
    \/ pid >= 192 /\ pid <= 253 /\ o + 1 < Len(bytes) /\ o + 2 + bytes[o + 2] <= Len(bytes)

\* The offset at which the walk over data ends.
WalkEnd(bytes) ==
  LET blocks == Walk(bytes, 0) IN
    IF blocks = <<>> THEN 0
    ELSE LET b == blocks[Len(blocks)]
         IN b.at + 1 + (IF b.pid >= 192 /\ b.pid <= 253 THEN 1 ELSE 0) + Len(b.param)

\* The frame has a PID block that declares more data bytes than remain.
Truncated(frame) ==
  LET bytes == FrameData(frame)
      o == WalkEnd(bytes)
  IN /\ o < Len(bytes)
     /\ bytes[o + 1] <= 253
     /\ (bytes[o + 1] >= 192 => o + 1 < Len(bytes))
     /\ ~Complete(bytes, o)

\* C18: a parseFrame call on a frame with a valid checksum and a truncated
\* PID block leaves the metric table and the DTC channel as they were, also
\* when complete blocks precede the truncated one.
C18_TruncatedFrameDiscarded ==
  [][\A frame \in Frames :
       (parseFrame(frame) /\ validateJ1587Checksum(frame) /\ Truncated(frame))
         => UNCHANGED <<data, dtcChan>>]_vars

\* C19: in the walk of the frame parseFrame was called with, a PID in
\* 192..253 with a length byte of 0 gives a block with no data, and the byte
\* after the length byte is read as the next PID (the next block starts
\* there, or no complete block starts there); no block is handed on for a
\* length byte larger than the bytes that remain, the walk ends there, and
\* the walk reads no byte outside data (parseFrame does not panic).
C19_LengthByteOfWalk ==
  (agent = "frames" /\ validateJ1587Checksum(parsed))
    => LET bytes == FrameData(parsed)
           blocks == Walk(bytes, 0)
       IN /\ \A i \in DOMAIN blocks :
               LET b == blocks[i]
                   next == b.at + 2
               IN (b.pid >= 192 /\ b.pid <= 253)
                    => /\ Len(b.param) = bytes[b.at + 2]
                       /\ next + Len(b.param) <= Len(bytes)
                       /\ (bytes[b.at + 2] = 0 /\ next < Len(bytes))
                            => IF i < Len(blocks)
                               THEN /\ blocks[i + 1].at = next
                                    /\ blocks[i + 1].pid = bytes[next + 1]
                               ELSE ~Complete(bytes, next)
          /\ WalkReads(bytes, 0) \subseteq 0 .. (Len(bytes) - 1)
          /\ ~panicked
          /\ (WalkEnd(bytes) < Len(bytes)) => ~Complete(bytes, WalkEnd(bytes))

\* parseFrame has been called on a frame with a variable-length block of
\* length 0, a speed block right after it (decoded), and then a length byte
\* larger than the bytes that remain.
C19_Witness ==
  /\ agent = "frames"
  /\ ~panicked
  /\ validateJ1587Checksum(parsed)
  /\ LET bytes == FrameData(parsed)
         blocks == Walk(bytes, 0)
     IN /\ Len(blocks) = 2
        /\ blocks[1].pid = PID_ACTIVE_DTC /\ blocks[1].param = <<>>
        /\ blocks[2].pid = PID_VEHICLE_SPEED /\ blocks[2].at = 2
        /\ WalkEnd(bytes) = 4
        /\ Len(bytes) >= 6
        /\ bytes[5] = PID_ACTIVE_DTC
        /\ bytes[6] > Len(bytes) - 6
  /\ "Speed" \in DOMAIN data

\* C20: the frame a J1587 reader is sending on the frame channel has at
\* least one byte, whatever the reads (bytes, zero bytes, errors) were.
C20_NoEmptyFrame ==
  \A g \in DOMAIN readers :
    (agent = "j1587" /\ readers[g].pc = "send") => Len(readers[g].buf) >= 1

\* A reader that read nothing for a gap with bytes collected is at the send
\* of the frame.
C20_Witness ==
  /\ agent = "j1587"
  /\ \E g \in DOMAIN readers :
       /\ readers[g].pc = "send"
       /\ readers[g].pend = <<>>
       /\ Len(readers[g].buf) >= 1

\* C21: when readFrames has read the whole stream, it has placed a frame
\* boundary before a byte of the stream exactly when that byte arrived at
\* least interFrameGap after the byte before it, however the stream was
\* split into reads.
C21_FramingByGaps ==
  (agent = "assembler" /\ asm.pos = Len(asm.stream))
    => asm.cuts \cap (2 .. Len(asm.stream))
         = {i \in 2 .. Len(asm.stream) :
              asm.stream[i].t - asm.stream[i - 1].t >= interFrameGap}

\* C22 as stated: the record parseDM1 sends for the payload 00 00 01 02 43 05
\* (the first frame of the diagnostic traffic) has SPN 0x10201 = 66049,
\* FMI 3 and OC 5, and it is the only one.
C22_Dm1RecordAsStated ==
  [][\A h \in DOMAIN procs :
       (agent = "j1939" /\ budget.traffic = "dm" /\ handed = 1
          /\ CanProcSend(h) /\ ~panicked')
         => /\ dtcChan' = Append(dtcChan, [mid |-> 0, spn |-> 66049, fmi |-> 3, oc |-> 5])
            /\ procs'[h].pc = "recv"]_vars

\* C22, amended: the record parseDM1 sends for the payload 00 00 01 02 43 05
\* has SPN 0x20201 = 131585 (0x01 | 0x02<<8 | (0x43>>5)<<16, 0x43>>5 being
\* 2), FMI 3 and OC 5, and it is the only one the payload gives.
C22_Dm1Record ==
  [][\A h \in DOMAIN procs :
       (agent = "j1939" /\ budget.traffic = "dm" /\ handed = 1
          /\ CanProcSend(h) /\ ~panicked')
         => /\ dtcChan' = Append(dtcChan, [mid |-> 0, spn |-> 131585, fmi |-> 3, oc |-> 5])
            /\ procs'[h].pc = "recv"]_vars

\* The processor has sent the record of the first DM1 and is back at its
\* receive, with the second frame not yet taken.
C22_Witness ==
  /\ agent = "j1939"
  /\ budget.traffic = "dm"
  /\ handed = 1
  /\ ~panicked
  /\ dtcChan = <<[mid |-> 0, spn |-> 131585, fmi |-> 3, oc |-> 5]>>
  /\ published = {}
  /\ procs[1].pc = "recv"

\* C23: every DTC record a J1939 processor sends on dtcChan, from a DM1 or
\* from a DM2, has been checked with storage.IsNew first (the check that
\* drops an entry whose (SPN, FMI) the store already holds).
C23_EveryDtcDeduplicated ==
  [][\A h \in DOMAIN procs :
       (agent = "j1939" /\ CanProcSend(h) /\ ~panicked') => procs[h].dedup]_vars

\* C24: when storage.IsNew returns an error for an entry of a DM1 payload,
\* the processor goes on to send that entry on dtcChan, and after the send
\* it goes on with the entries that remain in the payload.
C24_IsNewErrorStillSends ==
  [][\A h \in DOMAIN procs :
       /\ \A fail \in Failures :
            (agent = "j1939" /\ procs[h].pc = "check" /\ CanProcCheck(h, fail)
               /\ IsNew(db, Head(procs[h].todo).spn, Head(procs[h].todo).fmi, fail).err
               /\ ~panicked')
              => /\ procs'[h].pc = "send"
                 /\ procs'[h].todo = procs[h].todo
       /\ (agent = "j1939" /\ procs[h].dedup /\ CanProcSend(h) /\ ~panicked')
            => /\ dtcChan' = Append(dtcChan,
                               [mid |-> procs[h].sa, spn |-> Head(procs[h].todo).spn,
                                fmi |-> Head(procs[h].todo).fmi, oc |-> Head(procs[h].todo).oc])
               /\ Len(procs[h].todo) > 1
                    => /\ procs'[h].pc = "check"
                       /\ procs'[h].todo = Tail(procs[h].todo)]_vars

\* The second DM1 repeats the DTC of the first, and the DTC is in dtcChan
\* twice: IsNew returned an error for one of the two and it was sent all the
\* same; the entry after it in the second DM1 was sent too.
C24_Witness ==
  /\ agent = "j1939"
  /\ budget.traffic = "dm"
  /\ handed = 2
  /\ ~panicked
  /\ dtcChan = << [mid |-> 0, spn |-> 131585, fmi |-> 3, oc |-> 5],
                  [mid |-> 0, spn |-> 131585, fmi |-> 3, oc |-> 5],
                  [mid |-> 0, spn |-> 9, fmi |-> 4, oc |-> 1] >>

\* C25: when storage.IsNew returns an error for the DTC record the J1587
\* consumer has received, the record is published all the same (the client
\* being connected).
C25_ConsumerPublishesOnError ==
  [][\A fail \in Failures :
       (agent = "j1587" /\ consumer = "run" /\ dtcChan # <<>>
          /\ ConsumerRecv(fail, TRUE)
          /\ IsNew(db, Head(dtcChan).spn, Head(dtcChan).fmi, fail).err
          /\ ~panicked')
         => Head(dtcChan) \in published']_vars

\* C27: handleMQTTCommand with a command of Type common.CommandTypeClearDTCs
\* on a running bus whose port accepts the write has ClearActiveDTCs send the
\* clear command (PID 250) to the command's target MID, or to MID 128 when
\* the command names none.
C27_ClearCommandClears ==
  [][\A target \in TargetMIDs, fail \in Failures :
       (agent = "j1587" /\ port = "open" /\ isRunning
          /\ handleMQTTCommand(CommandTypeClearDTCs, target, FALSE, fail))
         => Framed(<<IF target = <<>> THEN 128 ELSE target[1], PID_COMMAND_CLEAR_DTCS>>)
              \in written']_vars

\* C26: after parseEEC1 on a payload of at least 5 bytes, EngineRPM is
\* not-available (nil) when data[3] and data[4] are both 0xFF and is
\* (data[3] + 256*data[4]) / 8 otherwise (1250 for FF FF FF 10 27 FF FF FF),
\* and EngineLoad is not-available when data[2] is 0xFF, whatever the table
\* held before.
C26_Eec1Sentinels ==
  [][\A bytes \in EecPayloads :
       (DecodeFrame(pgnEEC1, bytes) /\ Len(bytes) >= 5)
         => /\ "EngineRPM" \in DOMAIN data' /\ "EngineLoad" \in DOMAIN data'
            /\ data'["EngineRPM"] = IF bytes[4] = 255 /\ bytes[5] = 255 THEN <<>>
                                    ELSE <<bytes[4] + 256 * bytes[5], 8>>
            /\ bytes[3] = 255 => data'["EngineLoad"] = <<>>
            /\ bytes = <<255, 255, 255, 16, 39, 255, 255, 255>>
                 => data'["EngineRPM"] = <<1250 * 8, 8>>]_vars

\* parseEEC1 has decoded a payload with all three sentinels, and both
\* metrics are not-available.
C26_Witness ==
  /\ agent = "candecode"
  /\ parsed # <<>>
  /\ parsed.pgn = pgnEEC1
  /\ parsed.data = <<255, 255, 255, 255, 255, 255, 255, 255>>
  /\ "EngineRPM" \in DOMAIN data /\ data["EngineRPM"] = <<>>
  /\ "EngineLoad" \in DOMAIN data /\ data["EngineLoad"] = <<>>

\* C28: while a goroutine is inside Set (between Lock and Unlock) no other
\* goroutine is inside Set, Get, MarshalJSON or Copy, and the map a Copy
\* returned holds what it held when Copy returned it, whatever was Set since.
C28_TableConsistent ==
  agent = "table"
    => LET inSet == {t \in Setters : pd.tasks[t].pc \in {"locked", "written"}}
           inRead == {t \in Getters : pd.tasks[t].pc \in {"rlocked", "read"}}
       IN /\ Cardinality(inSet) <= 1
          /\ inSet # {} => inRead = {}
          /\ \A t \in Getters :
               pd.tasks[t].snap # "none"
                 => pd.heap[pd.tasks[t].snap] = pd.tasks[t].snapValue

\* A caller holds the map of a Copy, a Set has written the table since, and
\* the other setter is waiting outside.
C28_Witness ==
  /\ agent = "table"
  /\ pd.tasks["r1"].snap = "r1"
  /\ pd.tasks["r1"].pc = "idle"
  /\ pd.heap["r1"] # pd.heap.data
  /\ pd.tasks["w1"].pc = "written"
  /\ pd.tasks["w2"].pc = "idle"

\* C29: a parseFrame call on a valid frame, made right after a parseFrame
\* call on the same frame, leaves the metric table as the first call left it.
C29_DecodeTwiceSameTable ==
  [][\A frame \in Frames :
       (parseFrame(frame) /\ parsed = frame /\ validateJ1587Checksum(frame))
         => data' = data]_vars

\* The DTC frame of the pipeline has been decoded twice (two records are in
\* dtcChan) and the table holds the speed of the frame.
C29_Witness ==
  /\ agent = "frames"
  /\ parsed = DtcFrame
  /\ Len(dtcChan) = 2
  /\ data = [Speed |-> <<60, 1>>]

\* C30: in the walk of the frame parseFrame was called with, the first block
\* starts at the first byte of data and each next one right after the data of
\* the one before; a block has 1 data byte for a PID in 0..127, 2 for a PID
\* in 128..191 and as many as its length byte says for a PID in 192..253; no
\* block has a PID of 254 or 255, the walk ends at such a PID.
C30_LengthByPidRange ==
  (agent = "frames" /\ validateJ1587Checksum(parsed))
    => LET bytes == FrameData(parsed)
           blocks == Walk(bytes, 0)
           span(b) == 1 + (IF b.pid >= 192 THEN 1 ELSE 0) + Len(b.param)
       IN /\ \A i \in DOMAIN blocks :
               LET b == blocks[i] IN
                 /\ b.at = IF i = 1 THEN 0 ELSE blocks[i - 1].at + span(blocks[i - 1])
                 /\ b.pid = bytes[b.at + 1]
                 /\ b.pid <= 253
                 /\ Len(b.param) = IF b.pid <= 127 THEN 1
                                   ELSE IF b.pid <= 191 THEN 2
                                   ELSE bytes[b.at + 2]
                 /\ b.param = SubSeq(bytes, b.at + span(b) - Len(b.param) + 1, b.at + span(b))
          /\ (Len(bytes) > 0 /\ bytes[1] >= 254) => blocks = <<>>

\* parseFrame has been called on the frame with an RPM block, PID 255 and
\* the bytes of a speed block: the RPM is decoded, the speed is not.
C30_Witness ==
  /\ agent = "frames"
  /\ parsed = Framed(<<128, PID_ENGINE_RPM, 31, 64, 255, PID_VEHICLE_SPEED, 60>>)
  /\ Walk(FrameData(parsed), 0) = <<[pid |-> PID_ENGINE_RPM, at |-> 0, param |-> <<31, 64>>]>>
  /\ data = [EngineRPM |-> <<1000, 1>>]

\* C31: parseFrame on a valid frame has the effect, on the metric table and
\* on dtcChan, of the frame's blocks without those whose PID has no case in
\* processPIDData; and where a complete block follows the data of such a
\* block in the frame, that block is in the walk too.
C31_UnknownPidSkipped ==
  [][\A frame \in Frames :
       (parseFrame(frame) /\ validateJ1587Checksum(frame) /\ ~WalkPanics(frame))
         => LET bytes == FrameData(frame)
                blocks == Walk(bytes, 0)
                known == SelectSeq(blocks, LAMBDA b : b.pid \in KnownPids)
                st == ApplyBlocks([data |-> data, dtc |-> dtcChan, dropped |-> dropped],
                                  frame[1], known)
                end(b) == b.at + 1 + (IF b.pid >= 192 THEN 1 ELSE 0) + Len(b.param)
                need(o) == LET p == bytes[o + 1] IN
                             IF p <= 127 THEN 2
                             ELSE IF p <= 191 THEN 3
                             ELSE IF o + 1 < Len(bytes) THEN 2 + bytes[o + 2]
                             ELSE Len(bytes) + 1
            IN /\ data' = st.data
               /\ dtcChan' = st.dtc
               /\ \A i \in DOMAIN blocks :
                    (/\ blocks[i].pid \notin KnownPids
                     /\ end(blocks[i]) < Len(bytes)
                     /\ bytes[end(blocks[i]) + 1] <= 253
                     /\ end(blocks[i]) + need(end(blocks[i])) <= Len(bytes))
                      => /\ i < Len(blocks)
                         /\ blocks[i + 1].at = end(blocks[i])]_vars

\* parseFrame has been called on the frame of PID 200 with two bytes and an
\* RPM block after it: the RPM is in the table, nothing is in dtcChan.
C31_Witness ==
  /\ agent = "frames"
  /\ parsed = Framed(<<128, 200, 2, 5, 6, PID_ENGINE_RPM, 31, 64>>)
  /\ data = [EngineRPM |-> <<1000, 1>>]
  /\ dtcChan = <<>>

\* C32: a parseDM1 call on a payload of length L, with IsNew failing (so
\* that every decoded entry is sent), appends to dtcChan exactly the
\* records of the first floor((L - 2) / 4) four-byte entries after the two
\* lamp bytes when L >= 6 and nothing when L < 6; every byte read is inside
\* the payload.
C32_Dm1EntryCount ==
  [][\A bytes \in Dm1Payloads, sa \in Dm1Sources :
       (/\ parsed' = [pgn |-> pgnDM1, sa |-> sa, data |-> bytes, fail |-> "begin"]
        /\ DecodeDm1(bytes, sa, "begin"))
         => LET L == Len(bytes)
                N == IF L >= 6 THEN (L - 2) \div 4 ELSE 0
            IN /\ \A k \in 1 .. N : 2 + 4 * (k - 1) + 4 <= L
               /\ dtcChan' = dtcChan \o
                    [k \in 1 .. N |->
                       [mid |-> sa,
                        spn |-> bytes[4 * k - 1] + 256 * bytes[4 * k]
                                  + 65536 * (bytes[4 * k + 1] \div 32),
                        fmi |-> bytes[4 * k + 1] % 32,
                        oc |-> bytes[4 * k + 2] % 128]]]_vars

\* parseDM1 has returned from the payload of 11 bytes (two entries and one
\* byte more) with IsNew failing: the two records are in dtcChan.
C32_Witness ==
  /\ agent = "dm"
  /\ parsed = [pgn |-> pgnDM1, sa |-> 33, data |-> Dm1Bytes, fail |-> "begin"]
  /\ dtcChan = << [mid |-> 33, spn |-> 131585, fmi |-> 3, oc |-> 5],
                  [mid |-> 33, spn |-> 9, fmi |-> 4, oc |-> 1] >>

\* C33: after every pass of readFrames, the frames sent so far, one after
\* the other, and then the frame being collected are the bytes read from the
\* port so far, in order; and a pass that sends a frame sends the bytes
\* collected before the pass, the bytes it read starting the next frame.
C33_NoByteLostOrDoubled ==
  [][agent = "assembler" =>
       LET RECURSIVE Concat(_)
           Concat(frames) == IF frames = <<>> THEN <<>>
                             ELSE Head(frames) \o Concat(Tail(frames))
           read(from, to) == [i \in 1 .. (to - from) |-> asm.stream[from + i].byte]
       IN /\ Concat(asm'.out) \o asm'.frame = read(0, asm'.pos)
          /\ Len(asm'.out) > Len(asm.out)
               => /\ asm'.out = Append(asm.out, asm.frame)
                  /\ asm'.frame = read(asm.pos, asm'.pos)]_vars

\* Two bytes were read and sent as a frame by the pass that read the third
\* byte, which is the frame being collected.
C33_Witness ==
  /\ agent = "assembler"
  /\ asm.out = << <<1, 2>> >>
  /\ asm.frame = <<3>>
  /\ asm.pos = 3

\* C34: whenever an update interval has elapsed after StartPublishing
\* returned, with StopPublishing not called, the publisher task runs
\* publishData for it, or StopPublishing is called.
C34_PublishesEveryInterval ==
  (agent = "publisher" /\ mq.owed /\ ~mq.stopClosed)
    ~> (~mq.owed \/ mq.stopClosed)

\* C35: no StopReading call closes stopChan when it is closed already: a
\* call that finds the bus running finds stopChan open.
C35_StopChanClosedOnce ==
  [][StopReading => ~(isRunning /\ stopClosed)]_vars

\* C36: on a J1939 bus started once, no step panics (no send on a closed
\* channel, no second close); framesCh is closed by the step in which the
\* reader returns and grows only by a step of the reader, while it is open;
\* dtcChan is closed by the step in which the processor returns and grows
\* only by a step of the processor, while it is open.
C36_ChannelsClosedByTheirSender ==
  [][(agent = "j1939" /\ Len(readers') = 1)
       => /\ ~panicked'
          /\ (framesClosed' /\ ~framesClosed)
               => (readers[1].pc # "done" /\ readers'[1].pc = "done")
          /\ Len(framesCh') > Len(framesCh)
               => (~framesClosed /\ readers[1].pc = "send")
          /\ (dtcClosed' /\ ~dtcClosed)
               => (procs[1].pc # "done" /\ procs'[1].pc = "done")
          /\ Len(dtcChan') > Len(dtcChan)
               => (~dtcClosed /\ procs[1].pc = "send")]_vars

\* One Start; the processor has sent DTC records, Stop was called, the
\* reader has closed framesCh and the processor has closed dtcChan.
C36_Witness ==
  /\ agent = "j1939"
  /\ Len(readers) = 1
  /\ readers[1].pc = "done"
  /\ procs[1].pc = "done"
  /\ framesClosed
  /\ dtcClosed
  /\ stopClosed
  /\ dtcChan # <<>>
  /\ ~panicked

\* C37: for every key the J1587 consumer has recorded in the dedup store, a
\* DTC record with that (code, FMI) has been published.
C37_RecordedImpliesPublished ==
  agent = "j1587"
    => \A key \in db.keys : \E dtc \in published : Key(dtc.spn, dtc.fmi) = key

\* C38: a ClearActiveDTCs call whose SendFrame fails (no port, the bus not
\* running, or the write failing) returns an error and leaves the dedup
\* store as it was; a call on a bus that is not running writes nothing to
\* the port; and a call that changes the dedup store has written the clear
\* command frame.
C38_ClearOnlyAfterSend ==
  [][\A writeFails \in BOOLEAN, fail \in Failures :
       ClearActiveDTCs(128, writeFails, fail)
         => /\ (port = "nil" \/ ~isRunning \/ writeFails)
                 => (lastRet' = "error" /\ db' = db)
            /\ ~isRunning => written' = written
            /\ db' # db => Framed(<<128, PID_COMMAND_CLEAR_DTCS>>) \in written']_vars

\* ClearActiveDTCs has returned an error on a stopped bus with an open
\* port: a key is still in the dedup store and nothing was written.
C38_Witness ==
  /\ agent = "j1587"
  /\ port = "open"
  /\ ~isRunning
  /\ stopClosed
  /\ lastRet = "error"
  /\ db.keys # {}
  /\ written = {}

\* C39 as stated: a parseDM1 call sends no record whose (SPN, FMI) is that
\* of a record sent before from another source address (and still in
\* dtcChan).
C39_SameFaultOtherSourceDropped ==
  [][agent = "dm"
       => \A i \in (Len(dtcChan) + 1) .. Len(dtcChan') :
            \A j \in 1 .. Len(dtcChan) :
              ~(/\ dtcChan[j].mid # dtcChan'[i].mid
                /\ dtcChan[j].spn = dtcChan'[i].spn
                /\ dtcChan[j].fmi = dtcChan'[i].fmi)]_vars

\* C39, amended: a parseDM1 call whose IsNew calls return no error sends no
\* record whose (SPN, FMI) is that of a record sent before from another
\* source address and recorded in the dedup store.
C39_DedupIgnoresSource ==
  [][(agent = "dm" /\ parsed' # <<>> /\ parsed'.fail = "none")
       => \A i \in (Len(dtcChan) + 1) .. Len(dtcChan') :
            \A j \in 1 .. Len(dtcChan) :
              ~(/\ dtcChan[j].mid # dtcChan'[i].mid
                /\ dtcChan[j].spn = dtcChan'[i].spn
                /\ dtcChan[j].fmi = dtcChan'[i].fmi
                /\ Key(dtcChan[j].spn, dtcChan[j].fmi) \in db.keys)]_vars

\* The DTC 131585/3 from source address 0 is in dtcChan and in the dedup
\* store, and parseDM1 has returned from the same DTC from source address
\* 33, with IsNew working, without sending a record.
C39_Witness ==
  /\ agent = "dm"
  /\ parsed = [pgn |-> pgnDM1, sa |-> 33, data |-> <<0, 0, 1, 2, 67, 5>>, fail |-> "none"]
  /\ dtcChan = << [mid |-> 0, spn |-> 131585, fmi |-> 3, oc |-> 5] >>
  /\ Key(131585, 3) \in db.keys

====
